---- MODULE Spec2Model ----
(***************************************************************************)
(* Model of the page-analysis pipeline of the Molaison AI backend.         *)
(*                                                                         *)
(* The repository holds several variants of the same service.  Two are     *)
(* modelled side by side:                                                  *)
(*   "enhanced"  src/server.js lines 1-665   (runEnhancedSEOAnalysis,      *)
(*               analyzeBrokenLinks, extractRealKeywords)                  *)
(*   "geo"       src/unnamed/part_000        (inline /api/analyze-seo,     *)
(*               checkBrokenLinks, extractKeywords,                        *)
(*               analyzeRealTechnicalSEO)                                  *)
(*                                                                         *)
(* Strings are sequences of one-character strings, so that startsWith,     *)
(* includes, toLowerCase, replace and split are computed, not assumed.     *)
(***************************************************************************)
EXTENDS Integers, Sequences, FiniteSets, TLC

VARIABLES
    \* ---- link audit (analyzeBrokenLinks / checkBrokenLinks) ----
    lvariant,     \* which variant's auditor runs
    lpc,          \* position of the auditor: "start", "probing", "done"
    lfetch,       \* outcome of the auditor's page fetch: "pending", "ok", "failed"
    anchors,      \* href attributes of the page's anchors, document order
    links,        \* extracted LinkRecords
    linksToCheck, \* links.slice(0, limit)
    probes,       \* outcome the network gave to each probe issued so far
    brokenLinks,  \* BrokenLinkRecords pushed so far
    lresult,      \* the object the auditor returned
    \* ---- keyword extraction (extractRealKeywords / extractKeywords) ----
    kvariant,     \* which variant's extractor runs
    kpc,          \* position of the extractor: "start", "done"
    kpage,        \* text of the page: title, headings, meta description, body
    kresult,      \* the object the extractor returned
    \* ---- technical analysis (analyzeRealTechnicalSEO) ----
    tpc,          \* position of the analyzer: "start", "robots", "sitemap", "speed", "done"
    world,        \* what the analyzed site and the page-speed service answer
    crawlScore,   \* the analyzer's crawlScore
    tscored,      \* the analyzer's scores, issues and recommendations
    tresult,      \* the object the analyzer returned
    \* ---- full analysis (POST /api/analyze-seo) ----
    avariant,     \* which variant's endpoint runs
    apc,          \* position: "start", "speed", "technical", "links", "keywords", "ai", "done"
    request,      \* req.body: url and customerId
    apiKeys,      \* are GOOGLE_API_KEY and OPENAI_API_KEY configured
    site,         \* the page the analyzed site serves
    results,      \* the results object of the analysis
    content,      \* keywordData.content
    calls,        \* the requests handed to the HTTP client so far
    response,     \* what the endpoint answered
    stored,       \* analysisResults entries and the customer's analysisCount
    \* ---- GEO analysis (analyzeGEOOptimization) ----
    gpc,          \* position of the analysis: "start", "fetched", "done"
    gpage,        \* what the fetch and the patterns of the analysis find
    gtopic,       \* the topic argument
    greport,      \* the object the analysis returned
    \* ---- aggregate score (calculateOverallScore) ----
    spc,          \* position of the call: "start", "done"
    svariant,     \* which backend's function is called
    sresults,     \* the results object handed to the function
    soverall,     \* the score the function returned
    \* ---- two concurrent requests to POST /api/analyze-seo ----
    cvariant,     \* which backend serves them
    cpc,          \* position of each request: "start", "analysing", "done"
    cinput,       \* req.body of each request and the state of its page
    cclock,       \* Date.now()
    analysisResults, \* the analysisResults map
    analysisCount,   \* customer.analysisCount of the known customer
    cresponse,    \* what each request was answered
    \* ---- entitlement over time (customers, verifyCustomerAccess) ----
    now,          \* new Date(), in years
    customers,    \* the customers map: purchaseDate and analysisCount per id
    customerCount, \* customerCount
    epc,          \* position of the request in flight: "idle", "start", "analysing", "done"
    erequest,     \* req.body of the request in flight
    erequests,    \* the requests received so far
    efetches,     \* the requests the analysis in flight handed to the HTTP client
    eresults,     \* the number of entries of analysisResults
    eanswer,      \* the status answered to the request in flight, 0 before
    \* ---- registration and session tokens ----
    rvariant,     \* which backend holds the store
    rcustomers,   \* the customers map, by customer id or by email
    rcount,       \* customerCount
    rtokens,      \* how many session tokens were drawn so far
    rissued,      \* per stored record, the tokens issued to it, oldest first
    rlast,        \* the last call and the status it was answered with
    \* ---- the analyzers of one request, in any order ----
    ovariant,     \* which backend runs the analysis
    opc,          \* "idle", "running" or "done"
    oinput,       \* the fixed responses of the network and the services
    odone,        \* the analyzers that have returned, in the order they did
    oearly,       \* the recommendations analyzer ran before keywordData existed
    oresults,     \* the results object
    ocontent,     \* keywordData.content, empty until the extractor returned
    oanswer       \* what the endpoint answered

kwVars == <<kvariant, kpc, kpage, kresult>>

linkVars == <<lvariant, lpc, lfetch, anchors, links, linksToCheck, probes, brokenLinks, lresult>>

techVars == <<tpc, world, crawlScore, tscored, tresult>>

analyzeVars == <<avariant, apc, request, apiKeys, site, results, content, calls, response,
                 stored>>

geoVars == <<gpc, gpage, gtopic, greport>>

scoreVars == <<spc, svariant, sresults, soverall>>

concurrentVars == <<cvariant, cpc, cinput, cclock, analysisResults, analysisCount, cresponse>>

entitlementVars == <<now, customers, customerCount, epc, erequest, erequests, efetches,
                     eresults, eanswer>>

registryVars == <<rvariant, rcustomers, rcount, rtokens, rissued, rlast>>

orderVars == <<ovariant, opc, oinput, odone, oearly, oresults, ocontent, oanswer>>

vars == <<linkVars, kwVars, techVars, analyzeVars, geoVars, scoreVars, concurrentVars,
          entitlementVars, registryVars, orderVars>>

-----------------------------------------------------------------------------
\* Bounds of the model.

\* Largest number of anchors on a modelled page.
MaxAnchors == 3

\* Largest number of words in the text of a modelled page.
MaxWords == 4

\* Largest number of <img> tags on a modelled page.
MaxImages == 5

-----------------------------------------------------------------------------
\* Strings

Variants == {"enhanced", "geo"}

\* A JavaScript number that may be NaN (the value of 0/0).
Num(n) == [nan |-> FALSE, val |-> n]
NaN == [nan |-> TRUE, val |-> 0]

\* String.prototype.startsWith
StartsWith(s, p) ==
    /\ Len(p) <= Len(s)
    /\ SubSeq(s, 1, Len(p)) = p

\* String.prototype.includes
Includes(s, sub) ==
    \E i \in 0..(Len(s) - Len(sub)) : SubSeq(s, i + 1, i + Len(sub)) = sub

\* Index of the first occurrence of character c at or after position i, or
\* Len(s) + 1 when there is none.
RECURSIVE IndexFrom(_, _, _)
IndexFrom(s, c, i) ==
    IF i > Len(s) THEN Len(s) + 1
    ELSE IF s[i] = c THEN i
    ELSE IndexFrom(s, c, i + 1)

SchemeSep == <<":", "/", "/">>
SchemeHttp == <<"h", "t", "t", "p">>
SchemeHttps == <<"h", "t", "t", "p", "s", ":", "/", "/">>
SchemeHttpPlain == <<"h", "t", "t", "p", ":", "/", "/">>

\* The page every audit of the model runs on: https://a.io/
BaseUrl == SchemeHttps \o <<"a", ".", "i", "o", "/">>

\* href attributes found on modelled pages.
HrefFragment == <<"#", "x">>
HrefMailto == <<"m", "a", "i", "l", "t", "o", ":", "m">>
HrefTel == <<"t", "e", "l", ":", "1">>
HrefPath == <<"/", "a">>
HrefRoot == <<"/">>
HrefExternal == SchemeHttps \o <<"b", ".", "i", "o", "/">>
HrefLure == SchemeHttps \o <<"b", ".", "i", "o", "/", "a", ".", "i", "o">>

Hrefs == {HrefFragment, HrefMailto, HrefTel, HrefPath, HrefRoot, HrefExternal, HrefLure}

PrefixHash == <<"#">>
PrefixMailto == <<"m", "a", "i", "l", "t", "o", ":">>
PrefixTel == <<"t", "e", "l", ":">>

\* Position of the first character after "scheme://", 0 when s has no "://".
AfterScheme(s) ==
    IF \E i \in 1..(Len(s) - 2) : SubSeq(s, i, i + 2) = SchemeSep
    THEN (CHOOSE i \in 1..(Len(s) - 2) :
             /\ SubSeq(s, i, i + 2) = SchemeSep
             /\ \A j \in 1..(i - 1) : SubSeq(s, j, j + 2) # SchemeSep) + 3
    ELSE 0

\* new URL(u).hostname of an absolute URL with an authority.
Hostname(u) ==
    LET a == AfterScheme(u)
    IN  SubSeq(u, a, IndexFrom(u, "/", a) - 1)

\* scheme://host of an absolute URL.
Origin(u) ==
    LET a == AfterScheme(u)
    IN  SubSeq(u, 1, IndexFrom(u, "/", a) - 1)

\* An href that carries its own scheme ("https://...", "mailto:...", "tel:...").
HasScheme(href) ==
    LET c == IndexFrom(href, ":", 1)
    IN  /\ c > 1
        /\ c <= Len(href)
        /\ \A j \in 1..(c - 1) : href[j] \notin {"/", "#", "?"}

\* new URL(href, base).href for the hrefs of the model: an href with a scheme is
\* absolute (a special-scheme URL without a path gets "/"), "/path" is joined to
\* the origin of base, anything else to the directory of base.
ResolveUrl(href, base) ==
    IF HasScheme(href)
    THEN IF AfterScheme(href) > 0 /\ IndexFrom(href, "/", AfterScheme(href)) > Len(href)
         THEN href \o <<"/">>
         ELSE href
    ELSE IF StartsWith(href, <<"/">>)
    THEN Origin(base) \o href
    ELSE LET a == AfterScheme(base)
             lastSlash == CHOOSE i \in a..Len(base) :
                              /\ base[i] = "/"
                              /\ \A j \in (i + 1)..Len(base) : base[j] # "/"
         IN  SubSeq(base, 1, lastSlash) \o href

-----------------------------------------------------------------------------
\* Numbers

\* Math.round(num / den) for num >= 0, den > 0 (halves round up).
RoundDiv(num, den) == (2 * num + den) \div (2 * den)

Min(a, b) == IF a < b THEN a ELSE b
Max(a, b) == IF a > b THEN a ELSE b

-----------------------------------------------------------------------------
\* Link audit

\* links.slice(0, 50) in analyzeBrokenLinks, links.slice(0, 20) in checkBrokenLinks.
ProbeLimitEnhanced == 50
ProbeLimitGeo == 20
ProbeLimit(v) == IF v = "enhanced" THEN ProbeLimitEnhanced ELSE ProbeLimitGeo

\* The condition under which an anchor's href is extracted.
HrefSelected(v, href) ==
    IF v = "enhanced"
    THEN /\ Len(href) > 0
         /\ ~StartsWith(href, PrefixHash)
         /\ ~StartsWith(href, PrefixMailto)
         /\ ~StartsWith(href, PrefixTel)
    ELSE /\ Len(href) > 0
         /\ ~StartsWith(href, PrefixHash)
         /\ ~StartsWith(href, PrefixMailto)

\* The absolute URL of an extracted href.
AbsoluteUrl(v, href, base) ==
    IF v = "geo" /\ StartsWith(href, SchemeHttp)
    THEN href
    ELSE ResolveUrl(href, base)

\* The LinkRecord pushed for an href.
LinkRecord(v, href, base) ==
    LET absoluteUrl == AbsoluteUrl(v, href, base)
    IN  [url |-> absoluteUrl,
         isInternal |-> Includes(absoluteUrl, Hostname(base))]

\* The extraction loop over the anchors of the page.
RECURSIVE ExtractLinks(_, _, _)
ExtractLinks(v, as, base) ==
    IF as = <<>> THEN <<>>
    ELSE IF HrefSelected(v, Head(as))
         THEN <<LinkRecord(v, Head(as), base)>> \o ExtractLinks(v, Tail(as), base)
         ELSE ExtractLinks(v, Tail(as), base)

\* What the network can answer to one HEAD probe: a response with a status, or
\* a transport failure with or without an error code.
ProbeOutcomes ==
    {[kind |-> "http", status |-> 200, code |-> "none"],
     [kind |-> "http", status |-> 404, code |-> "none"],
     [kind |-> "http", status |-> 503, code |-> "ERR_BAD_RESPONSE"],
     [kind |-> "transport", status |-> 0, code |-> "ETIMEDOUT"],
     [kind |-> "transport", status |-> 0, code |-> "none"]}

\* validateStatus of the probe: axios.head resolves when it answers true.
ValidateStatus(status) == status < 500

\* axios.head throws: transport failure, or a status validateStatus refuses.
ProbeThrows(o) == o.kind = "transport" \/ ~ValidateStatus(o.status)

\* The records one probe adds to brokenLinks (none or one).
ProbeOneNoCatch(link, o) ==
    IF ~ProbeThrows(o) /\ o.status >= 400
    THEN <<[url |-> link.url, status |-> o.status, isInternal |-> link.isInternal,
            error |-> <<"HTTP", o.status>>]>>
    ELSE <<>>
ProbeOne(link, o) ==
    IF ProbeThrows(o)
    THEN <<[url |-> link.url, status |-> 0, isInternal |-> link.isInternal,
            error |-> <<IF o.code # "none" THEN o.code ELSE "Connection failed">>]>>
    ELSE IF o.status >= 400
    THEN <<[url |-> link.url, status |-> o.status, isInternal |-> link.isInternal,
            error |-> <<"HTTP", o.status>>]>>
    ELSE <<>>

CountInternal(ls) == Cardinality({i \in 1..Len(ls) : ls[i].isInternal})
CountExternal(ls) == Cardinality({i \in 1..Len(ls) : ~ls[i].isInternal})
CountDeep(ls, base) ==
    Cardinality({i \in 1..Len(ls) : ls[i].isInternal /\ ls[i].url # base})

\* Math.round((deep / links.length) * 100): 0/0 is NaN.
DeepLinkRatioRaw(ls, base) ==
    IF Len(ls) = 0 THEN NaN ELSE Num(RoundDiv(100 * CountDeep(ls, base), Len(ls)))

\* The enhanced variant returns the raw value, the geo variant "raw || 0".
DeepLinkRatio(v, ls, base) ==
    LET raw == DeepLinkRatioRaw(ls, base)
    IN  IF v = "enhanced" THEN raw
        ELSE IF raw.nan THEN Num(0) ELSE raw

\* The object returned after the probe loop.
AuditResult(v, ls, checked, broken, base) ==
    [totalLinks |-> Len(ls),
     checkedLinks |-> Len(checked),
     brokenLinks |-> broken,
     internalLinks |-> CountInternal(ls),
     externalLinks |-> CountExternal(ls),
     deepLinkRatio |-> DeepLinkRatio(v, ls, base),
     error |-> "none"]

\* The object returned by the outer catch.
AuditFallback ==
    [totalLinks |-> 0,
     checkedLinks |-> 0,
     brokenLinks |-> <<>>,
     internalLinks |-> 0,
     externalLinks |-> 0,
     deepLinkRatio |-> Num(0),
     error |-> "message"]

\* Nothing returned yet.
NoResult == [error |-> "pending"]

RECURSIVE SeqsUpTo(_, _)
SeqsUpTo(S, n) ==
    IF n = 0 THEN {<<>>}
    ELSE LET shorter == SeqsUpTo(S, n - 1)
         IN  shorter \cup {Append(s, x) : s \in {t \in shorter : Len(t) = n - 1}, x \in S}

\* The auditor before it is called.
LinkIdle ==
    /\ lvariant = "enhanced"
    /\ lpc = "idle"
    /\ lfetch = "pending"
    /\ anchors = <<>>
    /\ links = <<>>
    /\ linksToCheck = <<>>
    /\ probes = <<>>
    /\ brokenLinks = <<>>
    /\ lresult = NoResult

\* Pages with more links than the auditor probes, and pages with exactly as
\* many: a run of one path, after a fragment or the path, before the path or
\* an external target.
LongPages(v) ==
    {<<first>> \o [i \in 1..n |-> HrefPath] \o <<last>> :
        first \in {HrefFragment, HrefPath},
        n \in {ProbeLimit(v) - 1, ProbeLimit(v)},
        last \in {HrefPath, HrefExternal}}

\* On a long page the network answers one URL the same way throughout the
\* audit; on a short page every probe is answered independently.
SteadyAnswer(o) ==
    Len(anchors) > MaxAnchors =>
        \A i \in 1..Len(probes) :
            linksToCheck[i].url = linksToCheck[Len(probes) + 1].url => probes[i] = o

LinkInit ==
    /\ lvariant \in Variants
    /\ lpc = "start"
    /\ lfetch = "pending"
    /\ anchors \in SeqsUpTo(Hrefs, MaxAnchors) \cup LongPages(lvariant)
    /\ links = <<>>
    /\ linksToCheck = <<>>
    /\ probes = <<>>
    /\ brokenLinks = <<>>
    /\ lresult = NoResult

\* The page fetch fails: the outer catch returns the fallback.
AuditFetchFails ==
    /\ lpc = "start"
    /\ lfetch' = "failed"
    /\ lpc' = "done"
    /\ lresult' = AuditFallback
    /\ UNCHANGED <<lvariant, anchors, links, linksToCheck, probes, brokenLinks>>

\* The extraction without the cap: every extracted link is selected.
AuditExtractNoCap ==
    /\ lpc = "start"
    /\ lfetch' = "ok"
    /\ links' = ExtractLinks(lvariant, anchors, BaseUrl)
    /\ linksToCheck' = links'
    /\ lpc' = "probing"
    /\ UNCHANGED <<lvariant, anchors, probes, brokenLinks, lresult>>

\* The page fetch succeeds: links are extracted and the first ones selected.
AuditExtract ==
    /\ lpc = "start"
    /\ lfetch' = "ok"
    /\ links' = ExtractLinks(lvariant, anchors, BaseUrl)
    /\ linksToCheck' = SubSeq(links', 1, Min(Len(links'), ProbeLimit(lvariant)))
    /\ lpc' = "probing"
    /\ UNCHANGED <<lvariant, anchors, probes, brokenLinks, lresult>>

\* The probe loop without its inner try/catch: a throwing probe leaves the loop
\* for the outer catch.
AuditProbeNoIsolation ==
    /\ lpc = "probing"
    /\ Len(probes) < Len(linksToCheck)
    /\ \E o \in ProbeOutcomes :
          /\ SteadyAnswer(o)
          /\ probes' = Append(probes, o)
          /\ IF ProbeThrows(o)
             THEN /\ lpc' = "done"
                  /\ lresult' = AuditFallback
                  /\ UNCHANGED brokenLinks
             ELSE /\ brokenLinks' = brokenLinks \o ProbeOne(linksToCheck[Len(probes) + 1], o)
                  /\ UNCHANGED <<lpc, lresult>>
    /\ UNCHANGED <<lvariant, lfetch, anchors, links, linksToCheck>>

\* One iteration of the probe loop: the next selected link is probed, and a
\* throwing probe is caught inside the iteration.
AuditProbe ==
    /\ lpc = "probing"
    /\ Len(probes) < Len(linksToCheck)
    /\ \E o \in ProbeOutcomes :
          /\ SteadyAnswer(o)
          /\ probes' = Append(probes, o)
          /\ brokenLinks' = brokenLinks \o ProbeOne(linksToCheck[Len(probes) + 1], o)
    /\ UNCHANGED <<lvariant, lpc, lfetch, anchors, links, linksToCheck, lresult>>

\* The loop is over: the result object is built and returned.
AuditReturn ==
    /\ lpc = "probing"
    /\ Len(probes) = Len(linksToCheck)
    /\ lresult' = AuditResult(lvariant, links, linksToCheck, brokenLinks, BaseUrl)
    /\ lpc' = "done"
    /\ UNCHANGED <<lvariant, lfetch, anchors, links, linksToCheck, probes, brokenLinks>>

-----------------------------------------------------------------------------
\* Keyword extraction

UpperCase == <<"A", "B", "C", "D", "E", "F", "G", "H", "I", "J", "K", "L", "M",
               "N", "O", "P", "Q", "R", "S", "T", "U", "V", "W", "X", "Y", "Z">>
LowerCase == <<"a", "b", "c", "d", "e", "f", "g", "h", "i", "j", "k", "l", "m",
               "n", "o", "p", "q", "r", "s", "t", "u", "v", "w", "x", "y", "z">>
Digits == <<"0", "1", "2", "3", "4", "5", "6", "7", "8", "9">>

Range(f) == {f[i] : i \in DOMAIN f}

\* The regular-expression classes \w and \s.
WordChars == Range(UpperCase) \cup Range(LowerCase) \cup Range(Digits) \cup {"_"}
UpperChars == Range(UpperCase)
IsWordChar(c) == c \in WordChars
IsSpace(c) == c \in {" ", "\t", "\n"}

LowerChar(c) ==
    IF c \in UpperChars
    THEN LowerCase[CHOOSE i \in DOMAIN UpperCase : UpperCase[i] = c]
    ELSE c

\* String.prototype.toLowerCase
ToLowerCase(s) == [i \in 1..Len(s) |-> LowerChar(s[i])]

\* .replace(/[^\w\s]/g, ' ')
ReplaceNonWord(s) ==
    [i \in 1..Len(s) |-> IF IsWordChar(s[i]) \/ IsSpace(s[i]) THEN s[i] ELSE " "]

\* The k-th smallest member of a set of integers.
NthOf(S, k) == CHOOSE i \in S : Cardinality({j \in S : j < i}) = k - 1

\* .split(/\s+/): the pieces between maximal runs of whitespace; a string that
\* starts or ends with whitespace yields an empty first or last piece, and the
\* empty string yields one empty piece.
SplitWhitespace(s) ==
    LET n == Len(s)
        starts == {i \in 1..n : ~IsSpace(s[i]) /\ (i = 1 \/ IsSpace(s[i - 1]))}
        ends == {i \in 1..n : ~IsSpace(s[i]) /\ (i = n \/ IsSpace(s[i + 1]))}
        words == [k \in 1..Cardinality(starts) |->
                     SubSeq(s, NthOf(starts, k), NthOf(ends, k))]
        lead == IF n > 0 /\ IsSpace(s[1]) THEN <<(<<>>)>> ELSE <<>>
        trail == IF n > 0 /\ IsSpace(s[n]) THEN <<(<<>>)>> ELSE <<>>
    IN  IF n = 0 THEN <<(<<>>)>> ELSE lead \o words \o trail

\* Array.prototype.filter
FilterSeq(xs, Keep(_)) ==
    LET kept == {i \in 1..Len(xs) : Keep(xs[i])}
    IN  [k \in 1..Cardinality(kept) |-> xs[NthOf(kept, k)]]

W_the == <<"t", "h", "e">>
W_this == <<"t", "h", "i", "s">>

\* The stop-word list of the geo variant.
StopWordsGeo ==
    {<<"t", "h", "e">>,
     <<"a", "n", "d">>,
     <<"o", "r">>,
     <<"b", "u", "t">>,
     <<"i", "n">>,
     <<"o", "n">>,
     <<"a", "t">>,
     <<"t", "o">>,
     <<"f", "o", "r">>,
     <<"o", "f">>,
     <<"w", "i", "t", "h">>,
     <<"b", "y">>}

\* The stop-word list of the enhanced variant.
StopWordsEnhanced ==
    {<<"t", "h", "e">>,
     <<"a", "n", "d">>,
     <<"o", "r">>,
     <<"b", "u", "t">>,
     <<"i", "n">>,
     <<"o", "n">>,
     <<"a", "t">>,
     <<"t", "o">>,
     <<"f", "o", "r">>,
     <<"o", "f">>,
     <<"w", "i", "t", "h">>,
     <<"b", "y">>,
     <<"f", "r", "o", "m">>,
     <<"u", "p">>,
     <<"a", "b", "o", "u", "t">>,
     <<"i", "n", "t", "o">>,
     <<"t", "h", "r", "o", "u", "g", "h">>,
     <<"d", "u", "r", "i", "n", "g">>,
     <<"b", "e", "f", "o", "r", "e">>,
     <<"a", "f", "t", "e", "r">>,
     <<"a", "b", "o", "v", "e">>,
     <<"b", "e", "l", "o", "w">>,
     <<"b", "e", "t", "w", "e", "e", "n">>,
     <<"a", "m", "o", "n", "g">>,
     <<"t", "h", "i", "s">>,
     <<"t", "h", "a", "t">>,
     <<"t", "h", "e", "s", "e">>,
     <<"t", "h", "o", "s", "e">>,
     <<"c", "a", "n">>,
     <<"w", "i", "l", "l">>,
     <<"s", "h", "o", "u", "l", "d">>,
     <<"w", "o", "u", "l", "d">>,
     <<"c", "o", "u", "l", "d">>,
     <<"m", "a", "y">>,
     <<"m", "i", "g", "h", "t">>,
     <<"m", "u", "s", "t">>,
     <<"h", "a", "v", "e">>,
     <<"h", "a", "s">>,
     <<"h", "a", "d">>,
     <<"b", "e", "e", "n">>,
     <<"b", "e", "i", "n", "g">>,
     <<"a", "r", "e">>,
     <<"i", "s">>,
     <<"w", "a", "s">>,
     <<"w", "e", "r", "e">>}

IsStopWord(v, word) ==
    IF v = "enhanced" THEN word \in StopWordsEnhanced ELSE word \in StopWordsGeo

\* The shortest token that is not kept has this length.
MinKeptLength == 2

\* replace, split and filter of one text, without toLowerCase.
TokensOfNoLowerCase(v, text) ==
    LET Keep(word) == Len(word) > MinKeptLength /\ ~IsStopWord(v, word)
    IN  FilterSeq(SplitWhitespace(ReplaceNonWord(text)), Keep)

\* toLowerCase, replace, split and filter of one text.
TokensOf(v, text) ==
    LET Keep(word) == Len(word) > MinKeptLength /\ ~IsStopWord(v, word)
    IN  FilterSeq(SplitWhitespace(ReplaceNonWord(ToLowerCase(text))), Keep)

\* extractKeywordsFromText of the enhanced variant: nothing for an empty text.
ExtractKeywordsFromText(text) ==
    IF text = <<>> THEN <<>> ELSE TokensOf("enhanced", text)

RECURSIVE FlatMapTokens(_)
FlatMapTokens(hs) ==
    IF hs = <<>> THEN <<>>
    ELSE ExtractKeywordsFromText(Head(hs)) \o FlatMapTokens(Tail(hs))

\* bodyText.substring(0, 2000)
BodyPrefixLen == 2000

\* Texts joined by single spaces.
RECURSIVE JoinWords(_)
JoinWords(ws) ==
    IF ws = <<>> THEN <<>>
    ELSE IF Len(ws) = 1 THEN ws[1]
    ELSE ws[1] \o <<" ">> \o JoinWords(Tail(ws))

\* The tokens that are counted: title, headings, meta description and the head
\* of the body pooled in the enhanced variant; in the geo variant the text left
\* of the markup once every tag is replaced by a space, which holds the title,
\* the headings and the body but no attribute value.
CountedTokens(v, page) ==
    IF v = "enhanced"
    THEN ExtractKeywordsFromText(page.title)
            \o FlatMapTokens(page.headings)
            \o ExtractKeywordsFromText(page.meta)
            \o ExtractKeywordsFromText(SubSeq(page.body, 1, Min(Len(page.body), BodyPrefixLen)))
    ELSE TokensOf("geo", JoinWords(<<page.title>> \o page.headings \o <<page.body>>))

W_constructor == <<"c", "o", "n", "s", "t", "r", "u", "c", "t", "o", "r">>

\* keywordFreq is a plain object: a key it inherits ("constructor") reads as a
\* function, so "(keywordFreq[k] || 0) + 1" is a string and stays one.
InheritedKeys == {W_constructor}

\* allKeywords.forEach(k => keywordFreq[k] = (keywordFreq[k] || 0) + 1): the own
\* properties of keywordFreq in insertion order, which is the order of the
\* words' first occurrence, each with the number of its occurrences; text marks
\* a count that is a string.
CountAll(words) ==
    LET first == {i \in 1..Len(words) : \A j \in 1..(i - 1) : words[j] # words[i]}
        Entry(w) ==
            [word |-> w,
             count |-> IF w \in InheritedKeys THEN 0
                       ELSE Cardinality({i \in 1..Len(words) : words[i] = w}),
             text |-> w \in InheritedKeys]
    IN  [k \in 1..Cardinality(first) |-> Entry(words[NthOf(first, k)])]

DigitValue(c) == (CHOOSE i \in DOMAIN Digits : Digits[i] = c) - 1

\* Numeric order of two canonical strings of digits: the shorter is smaller,
\* and of two of one length the one smaller at the first differing digit.
DigitsLess(a, b) ==
    \/ Len(a) < Len(b)
    \/ /\ Len(a) = Len(b)
       /\ \E i \in 1..Len(a) :
             /\ DigitValue(a[i]) < DigitValue(b[i])
             /\ \A j \in 1..(i - 1) : a[j] = b[j]

\* Largest array index of JavaScript, 2^32 - 2, in digits.
MaxArrayIndex == <<"4", "2", "9", "4", "9", "6", "7", "2", "9", "4">>

\* A property key that is an array index: canonical decimal digits.
IsArrayIndex(w) ==
    /\ Len(w) >= 1
    /\ \A i \in 1..Len(w) : w[i] \in Range(Digits)
    /\ (Len(w) > 1 => w[1] # "0")
    /\ (w = MaxArrayIndex \/ DigitsLess(w, MaxArrayIndex))

\* Array.prototype.sort with a comparator, which is stable: an entry comes
\* after the entries that must precede it and after the earlier entries it
\* ties with.
StableSort(xs, Before(_, _)) ==
    LET n == Len(xs)
        Rank(i) ==
            1 + Cardinality({j \in 1..n : Before(xs[j], xs[i])})
              + Cardinality({j \in 1..(i - 1) :
                                ~Before(xs[j], xs[i]) /\ ~Before(xs[i], xs[j])})
    IN  [k \in 1..n |-> xs[CHOOSE i \in 1..n : Rank(i) = k]]

\* Object.entries: the array-index keys first, in ascending numeric order, then
\* the other keys in insertion order.
ObjectEntries(freq) ==
    LET IsIdx(e) == IsArrayIndex(e.word)
        NotIdx(e) == ~IsArrayIndex(e.word)
        Lower(a, b) == DigitsLess(a.word, b.word)
    IN  StableSort(FilterSeq(freq, IsIdx), Lower) \o FilterSeq(freq, NotIdx)

\* .slice(0, 20)
MaxKeywords == 20

\* The comparator ([,a], [,b]) => b - a puts a before b when b - a < 0.
ByFrequency(a, b) == b.count - a.count < 0

\* The filter of the entries: count > 1 (false for a string count), and in the
\* enhanced variant word.length > 2.
EntryKept(v, e) ==
    /\ ~e.text
    /\ e.count > 1
    /\ (v = "enhanced" => Len(e.word) > 2)

\* filter, sort, slice and map of the counted entries.
RankKeywords(v, freq) ==
    LET Keep(e) == EntryKept(v, e)
        sorted == StableSort(FilterSeq(ObjectEntries(freq), Keep), ByFrequency)
        top == SubSeq(sorted, 1, Min(Len(sorted), MaxKeywords))
    IN  [i \in 1..Len(top) |-> [keyword |-> top[i].word, frequency |-> top[i].count]]

\* The keywords the extractor returns for a page.
KeywordsOf(v, page) == RankKeywords(v, CountAll(CountedTokens(v, page)))

\* The object returned by the catch of the extractor.
KeywordFallback == [keywords |-> <<>>, headingCount |-> 0, error |-> "message"]

\* Words as they stand in page text.
R_cat == <<"c", "a", "t">>
R_Dog == <<"D", "o", "g", ".">>
R_ox == <<"o", "x">>
R_2024 == <<"2", "0", "2", "4">>
Vocabulary == {R_cat, R_Dog, W_the, R_ox, R_2024}

\* A page whose words ws are cut into title, headings (one word each) and body.
PageOf(ws, a, b) ==
    [title |-> JoinWords(SubSeq(ws, 1, a)),
     headings |-> [i \in 1..(b - a) |-> ws[a + i]],
     meta |-> <<>>,
     body |-> JoinWords(SubSeq(ws, b + 1, Len(ws)))]

\* Number of distinct generated words of the long page.
ManyWords == 22

\* The i-th generated word: "k", a letter, "z".
GeneratedWord(i) == <<"k", LowerCase[i], "z">>

\* A page with more than twenty repeated words: every generated word twice,
\* then the last one a third time.
LongBody ==
    JoinWords([i \in 1..(2 * ManyWords + 1) |->
                  IF i <= ManyWords THEN GeneratedWord(i)
                  ELSE IF i <= 2 * ManyWords THEN GeneratedWord(i - ManyWords)
                  ELSE GeneratedWord(ManyWords)])

\* Pages beyond the small ones: the long page, a page with a meta description,
\* a page that repeats an inherited key, a page with stray whitespace.
SpecialPages ==
    {[title |-> <<>>, headings |-> <<>>, meta |-> <<>>, body |-> LongBody],
     [title |-> R_cat, headings |-> <<R_Dog>>, meta |-> JoinWords(<<R_Dog, R_cat>>),
      body |-> JoinWords(<<W_this, W_this, R_2024>>)],
     [title |-> <<>>, headings |-> <<>>, meta |-> <<>>,
      body |-> JoinWords(<<W_constructor, R_cat, W_constructor, R_cat>>)],
     [title |-> <<" ">> \o R_cat \o <<" ", " ">> \o R_cat \o <<"\n">>, headings |-> <<>>,
      meta |-> <<>>, body |-> <<>>]}

\* The places where a text of n words can be cut: after any number of title
\* words, with no heading or one after them, in the enhanced variant; nowhere
\* in the geo variant, which reads the page text as one.
Cuts(v, n) ==
    IF v = "enhanced"
    THEN {d \in (0..n) \X (0..n) : d[1] <= d[2] /\ d[2] <= d[1] + 1}
    ELSE {<<0, 0>>}

SmallPages(v) ==
    UNION {{PageOf(ws, c[1], c[2]) : c \in Cuts(v, Len(ws))} :
              ws \in SeqsUpTo(Vocabulary, MaxWords)}

\* The extractor before it is called.
KwIdle ==
    /\ kvariant = "enhanced"
    /\ kpc = "idle"
    /\ kpage = [title |-> <<>>, headings |-> <<>>, meta |-> <<>>, body |-> <<>>]
    /\ kresult = NoResult

KwInit ==
    /\ kvariant \in Variants
    /\ kpc = "start"
    /\ kpage \in SmallPages(kvariant) \cup SpecialPages
    /\ kresult = NoResult

\* The page fetch fails: the catch returns the fallback.
KwFetchFails ==
    /\ kpc = "start"
    /\ kpc' = "done"
    /\ kresult' = KeywordFallback
    /\ UNCHANGED <<kvariant, kpage>>

\* The page fetch succeeds: the words are counted and ranked.
KwExtract ==
    /\ kpc = "start"
    /\ kpc' = "done"
    /\ kresult' = [keywords |-> KeywordsOf(kvariant, kpage),
                   headingCount |-> Len(kpage.headings),
                   error |-> "none"]
    /\ UNCHANGED <<kvariant, kpage>>

KwNext ==
    \/ KwFetchFails /\ UNCHANGED <<linkVars, techVars, analyzeVars, geoVars, scoreVars, concurrentVars, entitlementVars, registryVars, orderVars>>
    \/ KwExtract /\ UNCHANGED <<linkVars, techVars, analyzeVars, geoVars, scoreVars, concurrentVars, entitlementVars, registryVars, orderVars>>

-----------------------------------------------------------------------------
\* Technical analysis (analyzeRealTechnicalSEO)

\* The site under analysis answers the analyzer's requests as the record
\* world says:
\*   url      the URL handed to the analyzer
\*   fetch    the page request: "fail" (rejected), "text" (a string body),
\*            "object" (a body the HTTP client parsed into a non-string)
\*   markers  the substrings html.includes() finds in the page
\*   headers  the response headers with a truthy value
\*   title    what /<title[^>]*>([^<]+)<\/title>/i captures
\*   images   the <img> tags and how many of them include 'alt='
\*   robots, sitemap  the answers to the two auxiliary requests
\*   speed    the page-speed service: is a key configured, does the call
\*            succeed, and the performance score in thousandths

HttpUrl == SchemeHttpPlain \o <<"a", ".", "i", "o", "/">>

CrawlMarkers == {"name=\"robots\"", "noindex", "nofollow"}
MobileMarkers == {"name=\"viewport\"", "width=device-width", "@media", "responsive",
                  "mobile", "flash", ".swf"}
SecurityMarkers == {"http://", "password", "autocomplete=\"off\""}
StructureMarkers == {"<h1", "name=\"description\"", "lang=", "<html lang"}
OgTags == {"og:title", "og:description", "og:image", "og:url"}
MetaMarkers == OgTags \cup {"charset=", "twitter:card", "rel=\"canonical\"",
                            "application/ld+json"}
SecurityHeaders == {"strict-transport-security", "x-frame-options",
                    "x-content-type-options", "content-security-policy"}

\* Answers of an auxiliary request: rejected, 200 with a text holding the
\* searched word, 200 with another text, 200 with a parsed non-string body, or
\* another 2xx status.
AuxAnswers == {"throws", "200 hit", "200 miss", "200 object", "204"}

ImageCases == {c \in [count : 0..MaxImages, withAlt : 0..MaxImages] : c.withAlt <= c.count}

\* No title, a blank one, one of 60 characters, one of 61.
TitleCases == {[matched |-> FALSE, len |-> 0, trimmed |-> 0],
               [matched |-> TRUE, len |-> 1, trimmed |-> 0],
               [matched |-> TRUE, len |-> 60, trimmed |-> 60],
               [matched |-> TRUE, len |-> 61, trimmed |-> 61]}

\* data.lighthouseResult.categories.performance.score lies in 0..1; it is held
\* in thousandths.
SpeedCases == {[key |-> FALSE, ok |-> FALSE, permille |-> 0],
               [key |-> TRUE, ok |-> FALSE, permille |-> 0]} \cup
              {[key |-> TRUE, ok |-> TRUE, permille |-> p] : p \in {0, 5, 494, 495, 1000}}

\* A site that gives every point, and one that gives none.
BestWorld ==
    [url |-> BaseUrl, fetch |-> "text",
     markers |-> {"name=\"robots\"", "name=\"viewport\"", "width=device-width", "@media"}
                 \cup StructureMarkers \cup MetaMarkers,
     headers |-> SecurityHeaders,
     title |-> [matched |-> TRUE, len |-> 60, trimmed |-> 60],
     images |-> [count |-> 0, withAlt |-> 0],
     robots |-> "200 hit", sitemap |-> "200 hit",
     speed |-> [key |-> TRUE, ok |-> TRUE, permille |-> 1000]]

WorstWorld ==
    [url |-> HttpUrl, fetch |-> "text",
     markers |-> {"name=\"robots\"", "noindex", "flash", "password"},
     headers |-> {},
     title |-> [matched |-> FALSE, len |-> 0, trimmed |-> 0],
     images |-> [count |-> 1, withAlt |-> 0],
     robots |-> "throws", sitemap |-> "throws",
     speed |-> [key |-> FALSE, ok |-> FALSE, permille |-> 0]]

\* The base site with the markers of one group replaced.
WithMarkers(b, group, ms) == [b EXCEPT !.markers = (b.markers \ group) \cup ms]

\* Every site that differs from the base in what one part of the analysis
\* reads: all combinations of that part's inputs.
WorldsAround(b) ==
    {[b EXCEPT !.fetch = f] : f \in {"fail", "object"}}
    \cup {[WithMarkers(b, CrawlMarkers, ms) EXCEPT !.robots = r, !.sitemap = s] :
             ms \in SUBSET CrawlMarkers, r \in AuxAnswers, s \in AuxAnswers}
    \cup {WithMarkers(b, MobileMarkers, ms) : ms \in SUBSET MobileMarkers}
    \cup {[WithMarkers(b, SecurityMarkers, ms) EXCEPT !.url = u, !.headers = hs] :
             ms \in SUBSET SecurityMarkers, u \in {BaseUrl, HttpUrl},
             hs \in SUBSET SecurityHeaders}
    \cup {[WithMarkers(b, StructureMarkers, ms) EXCEPT !.title = t, !.images = i] :
             ms \in SUBSET StructureMarkers, t \in TitleCases, i \in ImageCases}
    \cup {WithMarkers(b, MetaMarkers, ms) : ms \in SUBSET MetaMarkers}
    \cup {[b EXCEPT !.speed = sp] : sp \in SpeedCases}

Worlds == WorldsAround(BestWorld) \cup WorldsAround(WorstWorld)

\* html.includes(marker)
HtmlIncludes(w, marker) == marker \in w.markers

\* A one-element list when the condition holds, else the empty list.
When(cond, text) == IF cond THEN <<text>> ELSE <<>>

\* An auxiliary request whose try block ends in its catch: the request is
\* rejected, or data.includes is called on a body that is no string.
AuxThrows(answer) == answer \in {"throws", "200 object"}

\* Points the robots.txt block adds before it ends: 15 for status 200, and 10
\* more when the text includes 'Sitemap:'.
RobotsPoints(answer) ==
    CASE answer = "200 hit" -> 25
      [] answer \in {"200 miss", "200 object"} -> 15
      [] OTHER -> 0

\* Points of the sitemap block: 15 for status 200 with a text including '<urlset'.
SitemapPoints(answer) == IF answer = "200 hit" THEN 15 ELSE 0

MetaRobotsPoints(w) ==
    IF HtmlIncludes(w, "name=\"robots\"")
    THEN IF ~HtmlIncludes(w, "noindex") /\ ~HtmlIncludes(w, "nofollow") THEN 10 ELSE 0
    ELSE 5

CrawlBase == 50

\* scores.crawlability = Math.min(100, crawlScore)
Crawlability(crawl) == Min(100, crawl)

\* 2. Mobile-friendly analysis: the score before the clamp, and the texts pushed.
FlashPenalty == 20

MobileSectionWith(w, penalty) ==
    LET viewport == HtmlIncludes(w, "name=\"viewport\"")
        responsive == HtmlIncludes(w, "@media") \/ HtmlIncludes(w, "responsive")
                      \/ HtmlIncludes(w, "mobile")
        flash == HtmlIncludes(w, "flash") \/ HtmlIncludes(w, ".swf")
    IN  [score |-> 30
                   + (IF viewport
                      THEN 25 + (IF HtmlIncludes(w, "width=device-width") THEN 15 ELSE 0)
                      ELSE 0)
                   + (IF responsive THEN 15 ELSE 0)
                   - (IF flash THEN penalty ELSE 0),
         issues |-> When(~viewport, "Missing viewport meta tag")
                    \o When(flash, "Flash content detected (not mobile-friendly)"),
         recs |-> When(~viewport, "Add viewport meta tag for mobile responsiveness")]

MobileSectionHeavyPenalty(w) == MobileSectionWith(w, 2 * FlashPenalty)

MobileSection(w) == MobileSectionWith(w, FlashPenalty)

\* 3. Security analysis.
SecuritySection(w) ==
    LET https == StartsWith(w.url, SchemeHttps)
        Header(h, points) == IF h \in w.headers THEN points ELSE 0
        mixed == https /\ HtmlIncludes(w, "http://")
    IN  [score |-> (IF https THEN 30 ELSE 0)
                   + Header("strict-transport-security", 15)
                   + Header("x-frame-options", 10)
                   + Header("x-content-type-options", 10)
                   + Header("content-security-policy", 15)
                   - (IF mixed THEN 10 ELSE 0)
                   + (IF ~HtmlIncludes(w, "password")
                         \/ HtmlIncludes(w, "autocomplete=\"off\"")
                      THEN 10 ELSE 0),
         issues |-> When(~https, "Website not using HTTPS")
                    \o When(mixed, "Mixed content detected (HTTP resources on HTTPS page)"),
         recs |-> When(~https, "Migrate to HTTPS for security and SEO benefits")]

\* Math.round(100 - altTextRatio), altTextRatio = imagesWithAlt / images.length * 100
MissingAltPercent(i) == RoundDiv(100 * (i.count - i.withAlt), i.count)

\* 4. HTML structure analysis.
StructureSection(w) ==
    LET titled == w.title.matched /\ w.title.trimmed > 0
        h1 == HtmlIncludes(w, "<h1")
        described == HtmlIncludes(w, "name=\"description\"")
        lang == HtmlIncludes(w, "lang=") \/ HtmlIncludes(w, "<html lang")
        i == w.images
        \* altTextRatio >= 80, >= 50, with the ratio 100 for a page without images
        altGood == i.count = 0 \/ 100 * i.withAlt >= 80 * i.count
        altFair == ~altGood /\ 100 * i.withAlt >= 50 * i.count
    IN  [score |-> 20
                   + (IF titled THEN 15 + (IF w.title.len <= 60 THEN 5 ELSE 0) ELSE 0)
                   + (IF h1 THEN 15 ELSE 0)
                   + (IF described THEN 15 ELSE 0)
                   + (IF lang THEN 10 ELSE 0)
                   + (IF altGood THEN 15 ELSE IF altFair THEN 8 ELSE 0),
         issues |-> When(~titled, "Missing or empty title tag")
                    \o When(~h1, "Missing H1 heading")
                    \o When(~described, "Missing meta description")
                    \o (IF altGood \/ altFair THEN <<>>
                        ELSE <<ToString(MissingAltPercent(i))
                               \o "% of images missing alt text">>),
         recs |-> When(~lang, "Add language declaration to HTML tag")]

\* 5. Metadata analysis.
MetaDataSection(w) ==
    LET ogCount == Cardinality({tag \in OgTags : HtmlIncludes(w, tag)})
        canonical == HtmlIncludes(w, "rel=\"canonical\"")
        structured == HtmlIncludes(w, "application/ld+json")
    IN  [score |-> 20
                   + (IF HtmlIncludes(w, "charset=") THEN 10 ELSE 0)
                   + ogCount * 5
                   + (IF HtmlIncludes(w, "twitter:card") THEN 10 ELSE 0)
                   + (IF canonical THEN 15 ELSE 0)
                   + (IF structured THEN 20 ELSE 0),
         issues |-> <<>>,
         recs |-> When(~canonical, "Add canonical URL to prevent duplicate content issues")
                  \o When(~structured, "Add structured data (JSON-LD) for rich snippets")]

\* Math.round(data.lighthouseResult.categories.performance.score * 100)
PageSpeedScore(permille) == RoundDiv(permille * 100, 1000)

DefaultSpeedScore == 50

MaxRecommendations == 8

\* The recommendations pushed for sub-scores under their thresholds.
ThresholdRecommendations(scores) ==
    When(scores.crawlability < 70,
         "Improve crawlability by adding robots.txt and XML sitemap")
    \o When(scores.mobileFriendly < 80,
            "Enhance mobile-friendliness with responsive design")
    \o When(scores.security < 80,
            "Strengthen security with HTTPS and security headers")
    \o When(scores.htmlStructure < 80,
            "Fix HTML structure issues and add missing meta tags")

\* The crawl score before its clamp, the five sub-scores computed from the
\* markup, with siteSpeed still 0, and the issues and recommendations after
\* the five sections.
ScoreMarkup(w, crawl, issues, recs) ==
    LET mobile == MobileSection(w)
        security == SecuritySection(w)
        structure == StructureSection(w)
        meta == MetaDataSection(w)
    IN  [crawl |-> crawl + MetaRobotsPoints(w),
         scores |-> [crawlability |-> Crawlability(crawl + MetaRobotsPoints(w)),
                     mobileFriendly |-> Min(100, mobile.score),
                     siteSpeed |-> 0,
                     security |-> Min(100, Max(0, security.score)),
                     htmlStructure |-> Min(100, structure.score),
                     metaData |-> Min(100, meta.score)],
         issues |-> issues \o mobile.issues \o security.issues \o structure.issues
                    \o meta.issues,
         recs |-> recs \o mobile.recs \o security.recs \o structure.recs \o meta.recs]

\* The two flags of the analysis object that are read off the crawl score:
\* hasRobotsTxt: crawlScore > 65, hasXMLSitemap: crawlScore > 80.
CrawlFlags(crawl) == [hasRobotsTxt |-> crawl > 65, hasXMLSitemap |-> crawl > 80]

\* The report with every recommendation, without the cut to eight.
TechnicalReportUncut(scored, speed) ==
    LET scores == [scored.scores EXCEPT !.siteSpeed = speed]
    IN  [overallScore |-> RoundDiv(scores.crawlability + scores.mobileFriendly
                                   + scores.security + scores.htmlStructure
                                   + scores.metaData + scores.siteSpeed, 6),
         scores |-> scores,
         issues |-> scored.issues,
         recommendations |-> scored.recs \o ThresholdRecommendations(scores),
         analysis |-> CrawlFlags(scored.crawl),
         error |-> "none"]

\* The report returned once siteSpeed is known.
TechnicalReport(scored, speed) ==
    LET scores == [scored.scores EXCEPT !.siteSpeed = speed]
        recs == scored.recs \o ThresholdRecommendations(scores)
    IN  [overallScore |-> RoundDiv(scores.crawlability + scores.mobileFriendly
                                   + scores.security + scores.htmlStructure
                                   + scores.metaData + scores.siteSpeed, 6),
         scores |-> scores,
         issues |-> scored.issues,
         recommendations |-> SubSeq(recs, 1, Min(Len(recs), MaxRecommendations)),
         analysis |-> CrawlFlags(scored.crawl),
         error |-> "none"]

ZeroScores ==
    [crawlability |-> 0, mobileFriendly |-> 0, siteSpeed |-> 0,
     security |-> 0, htmlStructure |-> 0, metaData |-> 0]

\* A fallback that keeps what the analysis had collected when it failed.
TechnicalFallbackPartial ==
    [overallScore |-> 0,
     scores |-> [ZeroScores EXCEPT !.crawlability = CrawlBase],
     issues |-> <<"No robots.txt file found",
                  "Unable to analyze website technical aspects">>,
     recommendations |-> <<"Website may be inaccessible or behind authentication">>,
     error |-> "message"]

\* The report returned by the catch around the whole analysis.
TechnicalFallback ==
    [overallScore |-> 0,
     scores |-> ZeroScores,
     issues |-> <<"Unable to analyze website technical aspects">>,
     recommendations |-> <<"Website may be inaccessible or behind authentication">>,
     error |-> "message"]

NotScored == [crawl |-> 0, scores |-> ZeroScores, issues |-> <<>>, recs |-> <<>>]

\* The analyzer before it is called.
TechIdle ==
    /\ tpc = "idle"
    /\ world = WorstWorld
    /\ crawlScore = 0
    /\ tscored = NotScored
    /\ tresult = NoResult

TechInit ==
    /\ tpc = "start"
    /\ world \in Worlds
    /\ crawlScore = 0
    /\ tscored = NotScored
    /\ tresult = NoResult

\* The page request is rejected: the catch returns the fallback.
TechFetchFails ==
    /\ tpc = "start"
    /\ world.fetch = "fail"
    /\ tpc' = "done"
    /\ tresult' = TechnicalFallback
    /\ UNCHANGED <<world, crawlScore, tscored>>

\* The page request resolves: the lists are empty, the crawl score is at its
\* base, and robots.txt is requested.
TechFetched ==
    /\ tpc = "start"
    /\ world.fetch # "fail"
    /\ tpc' = "robots"
    /\ crawlScore' = CrawlBase
    /\ UNCHANGED <<world, tscored, tresult>>

\* The robots.txt block without its try/catch: a rejected request leaves the
\* analysis for the outer catch.
TechRobotsNoCatch ==
    /\ tpc = "robots"
    /\ IF AuxThrows(world.robots)
       THEN /\ tpc' = "done"
            /\ tresult' = TechnicalFallback
            /\ UNCHANGED <<crawlScore, tscored>>
       ELSE /\ tpc' = "sitemap"
            /\ crawlScore' = crawlScore + RobotsPoints(world.robots)
            /\ UNCHANGED <<tscored, tresult>>
    /\ UNCHANGED world

\* The robots.txt request settles; the sitemap is requested.
TechRobots ==
    /\ tpc = "robots"
    /\ tpc' = "sitemap"
    /\ crawlScore' = crawlScore + RobotsPoints(world.robots)
    /\ tscored' = [tscored EXCEPT
          !.issues = @ \o When(AuxThrows(world.robots), "No robots.txt file found"),
          !.recs = @ \o When(AuxThrows(world.robots),
                             "Create a robots.txt file to guide search engine crawlers")]
    /\ UNCHANGED <<world, tresult>>

\* crawlScore, issues and recommendations once the sitemap request settled.
AfterSitemap ==
    [crawl |-> crawlScore + SitemapPoints(world.sitemap),
     issues |-> tscored.issues \o When(AuxThrows(world.sitemap), "No XML sitemap found"),
     recs |-> tscored.recs
              \o When(AuxThrows(world.sitemap),
                      "Create an XML sitemap to help search engines discover your pages")]

\* The sitemap request settles and the page body is no string: html.includes
\* throws, and the catch returns the fallback.
TechMarkupThrows ==
    /\ tpc = "sitemap"
    /\ world.fetch = "object"
    /\ tpc' = "done"
    /\ crawlScore' = AfterSitemap.crawl
    /\ tscored' = [tscored EXCEPT !.issues = AfterSitemap.issues, !.recs = AfterSitemap.recs]
    /\ tresult' = TechnicalFallback
    /\ UNCHANGED world

\* The sitemap request settles, the markup is scored, and without an API key
\* the report is returned with the default speed score.
TechScoreAndReturn ==
    /\ tpc = "sitemap"
    /\ world.fetch = "text"
    /\ ~world.speed.key
    /\ tpc' = "done"
    /\ crawlScore' = AfterSitemap.crawl + MetaRobotsPoints(world)
    /\ tscored' = ScoreMarkup(world, AfterSitemap.crawl, AfterSitemap.issues,
                              AfterSitemap.recs)
    /\ tresult' = TechnicalReport(tscored', DefaultSpeedScore)
    /\ UNCHANGED world

\* The sitemap request settles, the markup is scored, and with an API key the
\* page-speed service is called.
TechScoreAndAskSpeed ==
    /\ tpc = "sitemap"
    /\ world.fetch = "text"
    /\ world.speed.key
    /\ tpc' = "speed"
    /\ crawlScore' = AfterSitemap.crawl + MetaRobotsPoints(world)
    /\ tscored' = ScoreMarkup(world, AfterSitemap.crawl, AfterSitemap.issues,
                              AfterSitemap.recs)
    /\ UNCHANGED <<world, tresult>>

\* The page-speed call settles: its score, or the default when it failed.
TechSpeedSettles ==
    /\ tpc = "speed"
    /\ tpc' = "done"
    /\ tresult' = TechnicalReport(tscored,
                                  IF world.speed.ok THEN PageSpeedScore(world.speed.permille)
                                  ELSE DefaultSpeedScore)
    /\ UNCHANGED <<world, crawlScore, tscored>>

TechNext ==
    \/ TechFetchFails /\ UNCHANGED <<linkVars, kwVars, analyzeVars, geoVars, scoreVars, concurrentVars, entitlementVars, registryVars, orderVars>>
    \/ TechFetched /\ UNCHANGED <<linkVars, kwVars, analyzeVars, geoVars, scoreVars, concurrentVars, entitlementVars, registryVars, orderVars>>
    \/ TechRobots /\ UNCHANGED <<linkVars, kwVars, analyzeVars, geoVars, scoreVars, concurrentVars, entitlementVars, registryVars, orderVars>>
    \/ TechMarkupThrows /\ UNCHANGED <<linkVars, kwVars, analyzeVars, geoVars, scoreVars, concurrentVars, entitlementVars, registryVars, orderVars>>
    \/ TechScoreAndReturn /\ UNCHANGED <<linkVars, kwVars, analyzeVars, geoVars, scoreVars, concurrentVars, entitlementVars, registryVars, orderVars>>
    \/ TechScoreAndAskSpeed /\ UNCHANGED <<linkVars, kwVars, analyzeVars, geoVars, scoreVars, concurrentVars, entitlementVars, registryVars, orderVars>>
    \/ TechSpeedSettles /\ UNCHANGED <<linkVars, kwVars, analyzeVars, geoVars, scoreVars, concurrentVars, entitlementVars, registryVars, orderVars>>

-----------------------------------------------------------------------------
\* Full analysis (POST /api/analyze-seo)

\* req.body.url: absent, a string, or another JSON value such as a number.
BareHost == <<"a", ".", "i", "o">>

UrlCases ==
    {[kind |-> "absent", text |-> <<>>],
     [kind |-> "number", text |-> <<>>],
     [kind |-> "string", text |-> <<>>],
     [kind |-> "string", text |-> BareHost],
     [kind |-> "string", text |-> HttpUrl],
     [kind |-> "string", text |-> BaseUrl]}

\* !url
Falsy(url) == url.kind = "absent" \/ (url.kind = "string" /\ url.text = <<>>)

\* req.body.customerId: not given, or given and then unknown to the customers
\* map, known with a purchase older than a year, or known and current.
CustomerCases ==
    {[given |-> FALSE, known |-> FALSE, current |-> FALSE],
     [given |-> TRUE, known |-> FALSE, current |-> FALSE],
     [given |-> TRUE, known |-> TRUE, current |-> FALSE],
     [given |-> TRUE, known |-> TRUE, current |-> TRUE]}

VerifyCustomerAccess(c) == c.known /\ c.current

\* The HTTP client has a host to connect to only for an absolute http(s) URL;
\* its request for anything else is rejected.
Fetchable(url) ==
    /\ url.kind = "string"
    /\ StartsWith(url.text, SchemeHttpPlain) \/ StartsWith(url.text, SchemeHttps)

\* The page of the analyzed site: what html.includes finds, the numbers of
\* '<img' and '<a ' matches, the hrefs of its anchors and its text.
PlainPage ==
    [markers |-> {}, images |-> 0, anchorTags |-> 0, anchors |-> <<>>,
     text |-> [title |-> <<>>, headings |-> <<>>, meta |-> <<>>, body |-> <<>>]]

UntitledPage ==
    [markers |-> {"<title>", "<title></title>", "<h1"}, images |-> 1, anchorTags |-> 1,
     anchors |-> <<HrefPath>>,
     text |-> [title |-> <<>>, headings |-> <<R_cat>>, meta |-> <<>>,
               body |-> JoinWords(<<R_cat, R_2024, R_2024>>)]]

RichPage ==
    [markers |-> {"<title>", "name=\"description\"", "<h1", "application/ld+json"},
     images |-> 2, anchorTags |-> 2, anchors |-> <<HrefPath, HrefExternal>>,
     text |-> [title |-> R_cat, headings |-> <<R_Dog>>, meta |-> R_Dog,
               body |-> JoinWords(<<R_cat, R_Dog, R_Dog>>)]]

AnalyzedPages == {PlainPage, UntitledPage, RichPage}

\* A value returned, or an exception leaving the function.
Returned(v) == [thrown |-> FALSE, value |-> v]
Thrown == [thrown |-> TRUE, value |-> <<>>]

\* The object literal both technical analyzers build from the fetched page.
PageFacts(url, page) ==
    [hasTitle |-> HtmlIncludes(page, "<title>") /\ ~HtmlIncludes(page, "<title></title>"),
     hasMetaDescription |-> HtmlIncludes(page, "name=\"description\""),
     hasH1 |-> HtmlIncludes(page, "<h1"),
     hasSchemaMarkup |-> HtmlIncludes(page, "application/ld+json"),
     hasSSL |-> StartsWith(url.text, SchemeHttps),
     imageCount |-> page.images,
     linkCount |-> page.anchorTags]

\* analyzeTechnicalSEO: no try/catch of its own, a rejected request leaves it.
AnalyzeTechnicalSEO(url, page, up) ==
    IF Fetchable(url) /\ up THEN Returned(PageFacts(url, page)) ELSE Thrown

\* The probe loop over the selected links, given the answer to each probe.
RECURSIVE ProbeAll(_, _)
ProbeAll(checked, os) ==
    IF checked = <<>> THEN <<>>
    ELSE ProbeOne(Head(checked), Head(os)) \o ProbeAll(Tail(checked), Tail(os))

\* The links the auditor would select on the page.
SelectedLinks(v, url, page) ==
    LET ls == ExtractLinks(v, page.anchors, url.text)
    IN  SubSeq(ls, 1, Min(Len(ls), ProbeLimit(v)))

\* analyzeBrokenLinks / checkBrokenLinks as one call: the page request, the
\* extraction, the probes and the result, or the fallback of the outer catch.
LinkAudit(v, url, page, up, os) ==
    IF Fetchable(url) /\ up
    THEN LET ls == ExtractLinks(v, page.anchors, url.text)
             checked == SelectedLinks(v, url, page)
         IN  AuditResult(v, ls, checked, ProbeAll(checked, os), url.text)
    ELSE AuditFallback

\* analyzeTechnicalSEOWithLinks without its try/catch.
TechnicalWithLinksNoCatch(url, page, up, linksUp, os) ==
    IF Fetchable(url) /\ up
    THEN LET audit == LinkAudit("enhanced", url, page, linksUp, os)
         IN  Returned([technical |->
                           PageFacts(url, page)
                           @@ [totalLinks |-> audit.totalLinks,
                               internalLinks |-> audit.internalLinks,
                               externalLinks |-> audit.externalLinks,
                               deepLinkRatio |-> audit.deepLinkRatio],
                       brokenLinks |-> audit.brokenLinks])
    ELSE Thrown

\* analyzeTechnicalSEOWithLinks: the catch returns hasSSL alone, and
\* url.startsWith in the catch throws for a url that is no string.
TechnicalWithLinks(url, page, up, linksUp, os) ==
    IF Fetchable(url) /\ up
    THEN LET audit == LinkAudit("enhanced", url, page, linksUp, os)
         IN  Returned([technical |->
                           PageFacts(url, page)
                           @@ [totalLinks |-> audit.totalLinks,
                               internalLinks |-> audit.internalLinks,
                               externalLinks |-> audit.externalLinks,
                               deepLinkRatio |-> audit.deepLinkRatio],
                       brokenLinks |-> audit.brokenLinks])
    ELSE IF url.kind = "string"
    THEN Returned([technical |-> [hasSSL |-> StartsWith(url.text, SchemeHttps)],
                   brokenLinks |-> <<>>])
    ELSE Thrown

\* bodyText.substring(0, 1000)
ContentPrefixLen == 1000

\* extractRealKeywords / extractKeywords as one call.
KeywordData(v, url, page, up) ==
    IF Fetchable(url) /\ up
    THEN [keywords |-> KeywordsOf(v, page.text),
          content |-> SubSeq(page.text.body, 1, Min(Len(page.text.body), ContentPrefixLen))]
    ELSE [keywords |-> <<>>, content |-> <<>>]

DefaultRecommendations(v) ==
    <<"Optimize page titles for target keywords",
      "Add meta descriptions to improve CTR",
      "Improve page loading speed",
      "Add structured data markup">>
    \o When(v = "enhanced", "Fix broken links found during analysis")

\* .slice(0, 7) in analyzeContentWithAI, .slice(0, 5) in getAIRecommendations
MaxAiLinesEnhanced == 7
MaxAiLinesGeo == 5

\* What the completion service answers: a failure, or a text with so many
\* non-blank lines.
CompletionCases == {[ok |-> FALSE, lines |-> 0], [ok |-> TRUE, lines |-> 0],
                    [ok |-> TRUE, lines |-> 3], [ok |-> TRUE, lines |-> 9]}

\* Is the completion service called: the enhanced variant needs content, the
\* geo variant needs the page it requests first.
CompletionCalled(v, url, text, up) ==
    IF v = "enhanced" THEN text # <<>> ELSE Fetchable(url) /\ up

\* analyzeContentWithAI / getAIRecommendations as one call.
AiRecommendations(v, url, text, up, completion) ==
    IF CompletionCalled(v, url, text, up) /\ completion.ok
    THEN [i \in 1..Min(completion.lines,
                       IF v = "enhanced" THEN MaxAiLinesEnhanced ELSE MaxAiLinesGeo)
             |-> "line " \o ToString(i)]
    ELSE DefaultRecommendations(v)

\* A property of an object, false when the object lacks it (undefined).
Flag(object, name) == IF name \in DOMAIN object THEN object[name] ELSE FALSE

\* generateIssues, the same in both variants.
GenerateIssues(technical, broken) ==
    When(~Flag(technical, "hasTitle"), "Missing page title")
    \o When(~Flag(technical, "hasMetaDescription"), "Missing meta description")
    \o When(~Flag(technical, "hasH1"), "Missing H1 heading")
    \o When(~Flag(technical, "hasSSL"), "Website not using HTTPS")
    \o When(Len(broken) > 0, ToString(Len(broken)) \o " broken links found")

\* The characters of a word as one string.
RECURSIVE Text(_)
Text(chars) == IF chars = <<>> THEN "" ELSE Head(chars) \o Text(Tail(chars))

\* keywords.slice(0, 3).map(k => k.keyword).join(', ')
RECURSIVE JoinKeywords(_)
JoinKeywords(ks) ==
    IF ks = <<>> THEN ""
    ELSE IF Len(ks) = 1 THEN Text(ks[1].keyword)
    ELSE Text(ks[1].keyword) \o ", " \o JoinKeywords(Tail(ks))

\* technical.deepLinkRatio < 60, false for undefined and for NaN
LowDeepLinkRatio(technical) ==
    /\ "deepLinkRatio" \in DOMAIN technical
    /\ ~technical.deepLinkRatio.nan
    /\ technical.deepLinkRatio.val < 60

\* generateOpportunities: the geo variant has neither the keyword entry nor the
\* linking entry.
GenerateOpportunities(v, technical, keywords) ==
    When(~Flag(technical, "hasSchemaMarkup"), "Add structured data markup")
    \o When(v = "enhanced" /\ Len(keywords) > 0,
            "Optimize for " \o JoinKeywords(SubSeq(keywords, 1, Min(Len(keywords), 3))))
    \o <<"Improve page loading speed">>
    \o When(v = "enhanced" /\ LowDeepLinkRatio(technical),
            "Improve internal linking strategy")

CalculateOverallScoreTruncated(v, r) ==
    LET quarters ==
            4 * 30
            + (IF "pageSpeed" \in DOMAIN r.scores THEN r.scores.pageSpeed ELSE 0)
            + (IF Flag(r.technical, "hasTitle") THEN 4 * 8 ELSE 0)
            + (IF Flag(r.technical, "hasMetaDescription") THEN 4 * 8 ELSE 0)
            + (IF Flag(r.technical, "hasSSL") THEN 4 * 8 ELSE 0)
            + (IF Len(r.brokenLinks) = 0 THEN 4 * 10 ELSE 0)
            + (IF v = "enhanced" /\ Len(r.extractedKeywords) > 5 THEN 4 * 5 ELSE 0)
    IN  Min(100, Max(0, quarters \div 4))

\* calculateOverallScore, in quarters of a point until Math.round.
CalculateOverallScore(v, r) ==
    LET quarters ==
            4 * 30
            + (IF "pageSpeed" \in DOMAIN r.scores THEN r.scores.pageSpeed ELSE 0)
            + (IF Flag(r.technical, "hasTitle") THEN 4 * 8 ELSE 0)
            + (IF Flag(r.technical, "hasMetaDescription") THEN 4 * 8 ELSE 0)
            + (IF Flag(r.technical, "hasSSL") THEN 4 * 8 ELSE 0)
            + (IF Len(r.brokenLinks) = 0 THEN 4 * 10 ELSE 0)
            + (IF v = "enhanced" /\ Len(r.extractedKeywords) > 5 THEN 4 * 5 ELSE 0)
    IN  Min(100, Max(0, RoundDiv(quarters, 4)))

EmptyObject == [name \in {} |-> 0]

\* The results object as the analysis creates it.
NewResults(url) ==
    [url |-> url, timestamp |-> "now", scores |-> EmptyObject, issues |-> <<>>,
     opportunities |-> <<>>, technical |-> EmptyObject, recommendations |-> <<>>,
     brokenLinks |-> <<>>, extractedKeywords |-> <<>>]

\* The last statements of the analysis: issues, opportunities, overall score.
Completed(v, r) ==
    LET withLists == [r EXCEPT
            !.issues = GenerateIssues(r.technical, r.brokenLinks),
            !.opportunities = GenerateOpportunities(v, r.technical, r.extractedKeywords)]
    IN  [withLists EXCEPT !.scores = ("overall" :> CalculateOverallScore(v, withLists)) @@ @]

\* What the endpoint answers: the status, the error text and the data.
Answer(status, error, data) == [status |-> status, error |-> error, data |-> data]
NoAnswer == Answer(0, "", EmptyObject)

\* A request the analysis handed to the HTTP client, and whether it resolved.
Call(to, ok) == [to |-> to, ok |-> ok]

\* The page-speed service: a failure or a score in thousandths.
PageSpeedAnswers == {[ok |-> FALSE, permille |-> 0], [ok |-> TRUE, permille |-> 0],
                     [ok |-> TRUE, permille |-> 905]}

\* The probes of the full analysis get an answer without an error code.
PlainProbeOutcomes == {o \in ProbeOutcomes : o.code = "none"}

\* The answers to the probes of n links.
ProbeAnswers(n) == {os \in SeqsUpTo(PlainProbeOutcomes, n) : Len(os) = n}

\* The calls of a link audit: the page request and, when it resolved, the probes.
AuditCalls(url, up, os) ==
    <<Call("page", Fetchable(url) /\ up)>>
    \o (IF Fetchable(url) /\ up
        THEN [i \in 1..Len(os) |-> Call("link", ~ProbeThrows(os[i]))]
        ELSE <<>>)

\* The endpoint before a request arrives.
AnalyzeIdle ==
    /\ avariant = "enhanced"
    /\ apc = "idle"
    /\ request = [url |-> [kind |-> "absent", text |-> <<>>],
                  customer |-> [given |-> FALSE, known |-> FALSE, current |-> FALSE]]
    /\ apiKeys = [google |-> FALSE, openai |-> FALSE]
    /\ site = PlainPage
    /\ results = NewResults(request.url)
    /\ content = <<>>
    /\ calls = <<>>
    /\ response = NoAnswer
    /\ stored = [analyses |-> 0, analysisCount |-> 0]

AnalyzeInit ==
    /\ avariant \in Variants
    /\ apc = "start"
    /\ request \in [url : UrlCases, customer : CustomerCases]
    /\ apiKeys \in [google : BOOLEAN, openai : BOOLEAN]
    /\ site \in AnalyzedPages
    /\ results = NewResults(request.url)
    /\ content = <<>>
    /\ calls = <<>>
    /\ response = NoAnswer
    /\ stored = [analyses |-> 0, analysisCount |-> 0]

\* The analysisResults entry and the customer's analysisCount after an
\* analysis: the enhanced variant stores when a customerId was given.
Stored(v, customer, before) ==
    IF v = "enhanced" /\ customer.given
    THEN [analyses |-> before.analyses + 1,
          analysisCount |-> before.analysisCount + (IF customer.known THEN 1 ELSE 0)]
    ELSE before

\* if (!url): 400.
AnalyzeReject ==
    /\ apc = "start"
    /\ Falsy(request.url)
    /\ apc' = "done"
    /\ response' = Answer(400, "URL is required", EmptyObject)
    /\ UNCHANGED <<avariant, request, apiKeys, site, results, content, calls, stored>>

\* Enhanced variant: a customerId that verifyCustomerAccess refuses: 403.
AnalyzeForbid ==
    /\ apc = "start"
    /\ avariant = "enhanced"
    /\ ~Falsy(request.url)
    /\ request.customer.given /\ ~VerifyCustomerAccess(request.customer)
    /\ apc' = "done"
    /\ response' = Answer(403, "Valid subscription required", EmptyObject)
    /\ UNCHANGED <<avariant, request, apiKeys, site, results, content, calls, stored>>

\* The analysis starts: with a page-speed key its first call is the page-speed
\* service, else the technical analyzer.
AnalyzeBegin ==
    /\ apc = "start"
    /\ ~Falsy(request.url)
    /\ avariant = "enhanced" /\ request.customer.given
          => VerifyCustomerAccess(request.customer)
    /\ apc' = IF apiKeys.google THEN "speed" ELSE "technical"
    /\ UNCHANGED <<avariant, request, apiKeys, site, results, content, calls, response,
                   stored>>

AnalyzePageSpeedNoDefault ==
    /\ apc = "speed"
    /\ \E a \in PageSpeedAnswers :
          /\ calls' = Append(calls, Call("pagespeed", a.ok))
          /\ IF a.ok
             THEN /\ results' = [results EXCEPT
                        !.scores = ("pageSpeed" :> PageSpeedScore(a.permille)) @@ @,
                        !.technical = ("loadTime" :> "1.0 s") @@ @]
                  /\ apc' = "technical"
                  /\ UNCHANGED response
             ELSE /\ apc' = "done"
                  /\ response' = Answer(500, "Analysis failed", EmptyObject)
                  /\ UNCHANGED results
    /\ UNCHANGED <<avariant, request, apiKeys, site, content, stored>>

\* The page-speed call settles; a failure gives score 50 and 'Unknown'.
AnalyzePageSpeed ==
    /\ apc = "speed"
    /\ \E a \in PageSpeedAnswers :
          /\ results' = [results EXCEPT
                !.scores = ("pageSpeed" :> (IF a.ok THEN PageSpeedScore(a.permille)
                                            ELSE DefaultSpeedScore)) @@ @,
                !.technical = ("loadTime" :> (IF a.ok THEN "1.0 s" ELSE "Unknown")) @@ @]
          /\ calls' = Append(calls, Call("pagespeed", a.ok))
    /\ apc' = "technical"
    /\ UNCHANGED <<avariant, request, apiKeys, site, content, response, stored>>

\* Enhanced variant: analyzeTechnicalSEOWithLinks settles. An exception leaves
\* runEnhancedSEOAnalysis and the endpoint answers 500.
AnalyzeTechnicalEnhanced ==
    /\ apc = "technical"
    /\ avariant = "enhanced"
    /\ \E up \in BOOLEAN, linksUp \in BOOLEAN :
       \E os \in ProbeAnswers(IF Fetchable(request.url) /\ up /\ linksUp
                              THEN Len(SelectedLinks(avariant, request.url, site))
                              ELSE 0) :
          LET r == TechnicalWithLinks(request.url, site, up, linksUp, os)
              fetched == Fetchable(request.url) /\ up
          IN  /\ calls' = calls \o <<Call("page", fetched)>>
                          \o (IF fetched THEN AuditCalls(request.url, linksUp, os) ELSE <<>>)
              /\ IF r.thrown
                 THEN /\ apc' = "done"
                      /\ response' = Answer(500, "Analysis failed", EmptyObject)
                      /\ UNCHANGED results
                 ELSE /\ apc' = "keywords"
                      /\ results' = [results EXCEPT
                            !.technical = r.value.technical @@ @,
                            !.brokenLinks = r.value.brokenLinks]
                      /\ UNCHANGED response
    /\ UNCHANGED <<avariant, request, apiKeys, site, content, stored>>

\* Geo variant: analyzeTechnicalSEO settles inside its own try/catch.
AnalyzeTechnicalGeo ==
    /\ apc = "technical"
    /\ avariant = "geo"
    /\ \E up \in BOOLEAN :
          LET r == AnalyzeTechnicalSEO(request.url, site, up)
          IN  /\ calls' = Append(calls, Call("page", ~r.thrown))
              /\ results' = IF r.thrown THEN results
                            ELSE [results EXCEPT !.technical = r.value @@ @]
    /\ apc' = "links"
    /\ UNCHANGED <<avariant, request, apiKeys, site, content, response, stored>>

\* Geo variant: checkBrokenLinks settles.
AnalyzeLinksGeo ==
    /\ apc = "links"
    /\ \E up \in BOOLEAN :
       \E os \in ProbeAnswers(IF Fetchable(request.url) /\ up
                              THEN Len(SelectedLinks(avariant, request.url, site))
                              ELSE 0) :
          LET audit == LinkAudit(avariant, request.url, site, up, os)
          IN  /\ calls' = calls \o AuditCalls(request.url, up, os)
              /\ results' = [results EXCEPT
                    !.brokenLinks = audit.brokenLinks,
                    !.technical = ("totalLinks" :> audit.totalLinks) @@ @]
    /\ apc' = "keywords"
    /\ UNCHANGED <<avariant, request, apiKeys, site, content, response, stored>>

\* The keyword extractor settles and, with a completion key, the completion
\* analysis is called.
AnalyzeKeywordsThenAi ==
    /\ apc = "keywords"
    /\ apiKeys.openai
    /\ \E up \in BOOLEAN :
          LET data == KeywordData(avariant, request.url, site, up)
          IN  /\ calls' = Append(calls, Call("page", Fetchable(request.url) /\ up))
              /\ results' = [results EXCEPT !.extractedKeywords = data.keywords]
              /\ content' = data.content
    /\ apc' = "ai"
    /\ UNCHANGED <<avariant, request, apiKeys, site, response, stored>>

\* The keyword extractor settles and, without a completion key, the analysis
\* is completed and answered.
AnalyzeKeywordsAndAnswer ==
    /\ apc = "keywords"
    /\ ~apiKeys.openai
    /\ \E up \in BOOLEAN :
          LET data == KeywordData(avariant, request.url, site, up)
          IN  /\ calls' = Append(calls, Call("page", Fetchable(request.url) /\ up))
              /\ results' = Completed(avariant,
                                      [results EXCEPT !.extractedKeywords = data.keywords])
              /\ content' = data.content
    /\ apc' = "done"
    /\ response' = Answer(200, "", results')
    /\ stored' = Stored(avariant, request.customer, stored)
    /\ UNCHANGED <<avariant, request, apiKeys, site>>

\* The completion analysis settles; the analysis is completed and answered.
AnalyzeAi ==
    /\ apc = "ai"
    /\ \E up \in BOOLEAN, completion \in CompletionCases :
          LET called == CompletionCalled(avariant, request.url, content, up)
          IN  /\ calls' = calls
                          \o (IF avariant = "geo"
                              THEN <<Call("page", Fetchable(request.url) /\ up)>> ELSE <<>>)
                          \o (IF called THEN <<Call("completion", completion.ok)>> ELSE <<>>)
              /\ results' = Completed(avariant,
                    [results EXCEPT !.recommendations =
                        AiRecommendations(avariant, request.url, content, up, completion)])
    /\ apc' = "done"
    /\ response' = Answer(200, "", results')
    /\ stored' = Stored(avariant, request.customer, stored)
    /\ UNCHANGED <<avariant, request, apiKeys, site, content>>

AnalyzeNext ==
    \/ AnalyzeReject /\ UNCHANGED <<linkVars, kwVars, techVars, geoVars, scoreVars, concurrentVars, entitlementVars, registryVars, orderVars>>
    \/ AnalyzeForbid /\ UNCHANGED <<linkVars, kwVars, techVars, geoVars, scoreVars, concurrentVars, entitlementVars, registryVars, orderVars>>
    \/ AnalyzeBegin /\ UNCHANGED <<linkVars, kwVars, techVars, geoVars, scoreVars, concurrentVars, entitlementVars, registryVars, orderVars>>
    \/ AnalyzePageSpeed /\ UNCHANGED <<linkVars, kwVars, techVars, geoVars, scoreVars, concurrentVars, entitlementVars, registryVars, orderVars>>
    \/ AnalyzeTechnicalEnhanced /\ UNCHANGED <<linkVars, kwVars, techVars, geoVars, scoreVars, concurrentVars, entitlementVars, registryVars, orderVars>>
    \/ AnalyzeTechnicalGeo /\ UNCHANGED <<linkVars, kwVars, techVars, geoVars, scoreVars, concurrentVars, entitlementVars, registryVars, orderVars>>
    \/ AnalyzeLinksGeo /\ UNCHANGED <<linkVars, kwVars, techVars, geoVars, scoreVars, concurrentVars, entitlementVars, registryVars, orderVars>>
    \/ AnalyzeKeywordsThenAi /\ UNCHANGED <<linkVars, kwVars, techVars, geoVars, scoreVars, concurrentVars, entitlementVars, registryVars, orderVars>>
    \/ AnalyzeKeywordsAndAnswer /\ UNCHANGED <<linkVars, kwVars, techVars, geoVars, scoreVars, concurrentVars, entitlementVars, registryVars, orderVars>>
    \/ AnalyzeAi /\ UNCHANGED <<linkVars, kwVars, techVars, geoVars, scoreVars, concurrentVars, entitlementVars, registryVars, orderVars>>

-----------------------------------------------------------------------------
\* GEO analysis: analyzeGEOOptimization(url, topic), src/unnamed/part_000

\* The names of the six factors, in the order the factors object lists them.
GeoFactorNames ==
    {"directAnswers", "structuredContent", "faqSections", "comprehensiveness",
     "readability", "questionFormat"}

\* The phrases the analysis looks for in the cleaned markup.
FaqPhrases == {"frequently asked questions", "faq", "question:", "answer:"}

SchemaPhrase == "schema.org"

\* faqIndicators: each pattern is an alternation of phrases.
FaqIndicators ==
    << {"frequently asked questions"}, {"faq"}, {"q:", "question:"}, {"a:", "answer:"} >>

\* pattern.test(cleanHtml)
PatternTest(pattern, page) == pattern \cap page.markers # {}

\* What the fetch of the page and the regular expressions of the analysis
\* find: the first plain paragraph (its trimmed length, and whether one of the
\* directAnswerPatterns matches it), the counts of tags, the phrases present,
\* the number of words of the text, and the headings that ask a question.
\* Every count is drawn around the thresholds the analysis compares it with.
ParagraphCases ==
    { [length |-> 0, answer |-> FALSE], [length |-> 50, answer |-> TRUE],
      [length |-> 51, answer |-> FALSE], [length |-> 51, answer |-> TRUE] }

WordCounts == {1, 200, 201, 500, 501, 1000, 1001}

TextPages ==
    { [fetch |-> "text", error |-> "none", firstParagraph |-> p, listCount |-> l,
       bulletPoints |-> b, markers |-> m, wordCount |-> w, headingCount |-> h,
       paragraphCount |-> pc, questionHeadings |-> q] :
        p \in ParagraphCases, l \in {0, 1}, b \in {3, 4},
        m \in SUBSET (FaqPhrases \cup {SchemaPhrase}), w \in WordCounts,
        h \in {1, 2, 3}, pc \in {4, 5}, q \in {0, 1, 2} }

\* A heading that asks a question is a heading.
ConsistentPage(page) == page.questionHeadings <= page.headingCount

\* A page of one short paragraph and one heading.
SomePage ==
    [fetch |-> "text", error |-> "none",
     firstParagraph |-> [length |-> 0, answer |-> FALSE], listCount |-> 0,
     bulletPoints |-> 3, markers |-> {}, wordCount |-> 1, headingCount |-> 1,
     paragraphCount |-> 4, questionHeadings |-> 0]

\* The request for the page is rejected (timeout, refused, status outside
\* 2xx), or it resolves with a body that is no string (a JSON document).
UnreadablePages ==
    { [SomePage EXCEPT !.fetch = "fail", !.error = "timeout of 15000ms exceeded"],
      [SomePage EXCEPT !.fetch = "fail", !.error = "Request failed with status code 404"],
      [SomePage EXCEPT !.fetch = "object", !.error = "html.replace is not a function"] }

GeoPages == {page \in TextPages : ConsistentPage(page)} \cup UnreadablePages

\* req.body.topic: absent, the empty string, a phrase.
TopicCases ==
    { [given |-> FALSE, text |-> ""], [given |-> TRUE, text |-> ""],
      [given |-> TRUE, text |-> "seo tips"] }

\* if (topic)
TopicGiven(topic) == topic.given /\ topic.text # ""

\* 1. Direct answers (25 points)
DirectAnswers(page) ==
    IF page.firstParagraph.length > 50
    THEN (IF page.firstParagraph.answer THEN 25 ELSE 15)
    ELSE 0

\* 2. Structured content (20 points)
StructuredContent(page) ==
    IF page.listCount > 0 /\ page.bulletPoints > 3 THEN 20
    ELSE IF page.listCount > 0 THEN 10
    ELSE 0

\* 3. FAQ sections (20 points): 5 for each indicator that matches.
FaqScore(page) ==
    5 * Cardinality({i \in DOMAIN FaqIndicators : PatternTest(FaqIndicators[i], page)})

FaqSections(page) == Min(FaqScore(page), 20)

\* 4. Comprehensiveness (15 points)
Comprehensiveness(page) ==
    IF page.wordCount > 1000 THEN 15
    ELSE IF page.wordCount > 500 THEN 10
    ELSE IF page.wordCount > 200 THEN 5
    ELSE 0

\* 5. Readability (10 points)
Readability(page) ==
    IF page.headingCount >= 3 /\ page.paragraphCount >= 5 THEN 10
    ELSE IF page.headingCount >= 2 THEN 5
    ELSE 0

\* 6. Question format (10 points)
QuestionFormat(page) ==
    IF page.questionHeadings >= 2 THEN 10
    ELSE IF page.questionHeadings >= 1 THEN 5
    ELSE 0

GeoFactors(page) ==
    [directAnswers |-> DirectAnswers(page),
     structuredContent |-> StructuredContent(page),
     faqSections |-> FaqSections(page),
     comprehensiveness |-> Comprehensiveness(page),
     readability |-> Readability(page),
     questionFormat |-> QuestionFormat(page)]

RECURSIVE SumOver(_, _)
SumOver(object, names) ==
    IF names = {} THEN 0
    ELSE LET name == CHOOSE n \in names : TRUE
         IN  object[name] + SumOver(object, names \ {name})

GeoScoreWithoutQuestionFormat(factors) ==
    SumOver(factors, DOMAIN factors \ {"questionFormat"})

\* Object.values(factors).reduce((sum, score) => sum + score, 0)
GeoScoreOf(factors) == SumOver(factors, DOMAIN factors)

\* The recommendations pushed while the factors are scored, in the order of
\* the code.
FactorRecommendations(page) ==
    When(~ (page.firstParagraph.length > 50),
         "Add a clear, direct answer in the first paragraph")
    \o When(page.listCount = 0,
            "Add bullet points and numbered lists for better AI parsing")
    \o When(FaqSections(page) < 10,
            "Add an FAQ section with common questions and direct answers")
    \o When(~ (page.wordCount > 200),
            "Expand content to provide more comprehensive coverage of the topic")
    \o When(~ (page.headingCount >= 2),
            "Improve content structure with more headings and shorter paragraphs")
    \o When(~ (page.questionHeadings >= 1),
            "Use question-format headings (What is...? How to...?) for better AI understanding")

TopicRecommendation(text) ==
    "Optimize content specifically for \"" \o text
        \o "\" queries that AI users commonly ask"

LowScoreRecommendation ==
    "Consider restructuring content to answer user questions more directly"

SchemaRecommendation ==
    "Add FAQ schema markup to help AI engines understand your Q&A content"

MaxGeoRecommendations == 8

GeoRecommendationsTopicLast(page, topic, geoScore) ==
    FactorRecommendations(page)
    \o When(geoScore < 70, LowScoreRecommendation)
    \o When(SchemaPhrase \notin page.markers, SchemaRecommendation)
    \o When(TopicGiven(topic), TopicRecommendation(topic.text))

\* The list before recommendations.slice(0, 8).
GeoRecommendations(page, topic, geoScore) ==
    FactorRecommendations(page)
    \o When(TopicGiven(topic), TopicRecommendation(topic.text))
    \o When(geoScore < 70, LowScoreRecommendation)
    \o When(SchemaPhrase \notin page.markers, SchemaRecommendation)

\* generateGEOInsights(factors, content, topic); the leading pictograms of the
\* messages are left out.
GenerateGEOInsights(factors) ==
    << IF factors.directAnswers >= 20
       THEN "Excellent direct answer format - AI engines will easily extract key information"
       ELSE IF factors.directAnswers >= 10
       THEN "Good start with direct answers, but could be more concise and clear"
       ELSE "Missing direct answers - add clear, immediate responses to user questions",
       IF factors.structuredContent >= 15
       THEN "Well-structured content with good use of lists and bullet points"
       ELSE "Content needs better structure - more bullet points and numbered lists",
       IF factors.faqSections >= 15
       THEN "Strong FAQ presence - perfect for AI question-answering"
       ELSE IF factors.faqSections >= 5
       THEN "Some Q&A elements found, but could expand FAQ sections"
       ELSE "No FAQ sections detected - critical for GEO optimization",
       IF factors.comprehensiveness >= 12
       THEN "Comprehensive content coverage"
       ELSE "Content could be more comprehensive and detailed" >>

\* recommendations.slice(0, 8)
Slice(xs, n) == SubSeq(xs, 1, Min(Len(xs), n))

\* The object the analysis returns when nothing throws.
GeoReport(page, topic) ==
    LET factors == GeoFactors(page)
        geoScore == GeoScoreOf(factors)
    IN  [geoScore |-> geoScore,
         maxScore |-> 100,
         percentage |-> RoundDiv(geoScore * 100, 100),
         factors |-> factors,
         recommendations |->
             Slice(GeoRecommendations(page, topic, geoScore), MaxGeoRecommendations),
         insights |-> GenerateGEOInsights(factors),
         analysis |->
             [wordCount |-> page.wordCount, headingCount |-> page.headingCount,
              listCount |-> page.listCount, bulletPoints |-> page.bulletPoints,
              questionHeadings |-> page.questionHeadings,
              hasDirectAnswer |-> factors.directAnswers > 15,
              hasFAQ |-> factors.faqSections > 10,
              isComprehensive |-> factors.comprehensiveness > 10]]

\* The object the catch block returns.
GeoFallback(message) ==
    [geoScore |-> 0,
     maxScore |-> 100,
     percentage |-> 0,
     factors |-> EmptyObject,
     recommendations |-> <<"Unable to analyze website content for GEO optimization">>,
     insights |-> <<>>,
     analysis |-> EmptyObject,
     error |-> message]

NoReport == [error |-> "pending"]

GeoIdle ==
    /\ gpc = "idle"
    /\ gpage = SomePage
    /\ gtopic = [given |-> FALSE, text |-> ""]
    /\ greport = NoReport

GeoInit ==
    /\ gpc = "start"
    /\ gpage \in GeoPages
    /\ gtopic \in TopicCases
    /\ greport = NoReport

\* await axios.get(url, ...) rejects: the catch block answers.
GeoFetchFails ==
    /\ gpc = "start"
    /\ gpage.fetch = "fail"
    /\ greport' = GeoFallback(gpage.error)
    /\ gpc' = "done"
    /\ UNCHANGED <<gpage, gtopic>>

\* await axios.get(url, ...) resolves.
GeoFetched ==
    /\ gpc = "start"
    /\ gpage.fetch # "fail"
    /\ gpc' = "fetched"
    /\ UNCHANGED <<gpage, gtopic, greport>>

\* response.data is no string: html.replace throws and the catch block answers.
GeoBodyNotText ==
    /\ gpc = "fetched"
    /\ gpage.fetch = "object"
    /\ greport' = GeoFallback(gpage.error)
    /\ gpc' = "done"
    /\ UNCHANGED <<gpage, gtopic>>

\* The six factors are scored and the report is returned.
GeoScore ==
    /\ gpc = "fetched"
    /\ gpage.fetch = "text"
    /\ greport' = GeoReport(gpage, gtopic)
    /\ gpc' = "done"
    /\ UNCHANGED <<gpage, gtopic>>

GeoNext ==
    \/ GeoFetchFails /\ UNCHANGED <<linkVars, kwVars, techVars, analyzeVars, scoreVars, concurrentVars, entitlementVars, registryVars, orderVars>>
    \/ GeoFetched /\ UNCHANGED <<linkVars, kwVars, techVars, analyzeVars, scoreVars, concurrentVars, entitlementVars, registryVars, orderVars>>
    \/ GeoBodyNotText /\ UNCHANGED <<linkVars, kwVars, techVars, analyzeVars, scoreVars, concurrentVars, entitlementVars, registryVars, orderVars>>
    \/ GeoScore /\ UNCHANGED <<linkVars, kwVars, techVars, analyzeVars, scoreVars, concurrentVars, entitlementVars, registryVars, orderVars>>

-----------------------------------------------------------------------------
\* The aggregate score: calculateOverallScore(results), called on its own

\* The third backend of src/server.js (lines 1115-1365) has a
\* calculateOverallScore of its own.
ScoreVariants == Variants \cup {"basic"}

TechnicalFlags == {"hasTitle", "hasMetaDescription", "hasSSL", "hasH1", "hasSchemaMarkup"}

\* A list of n entries.
ListOf(n, entry) == [i \in 1..n |-> entry]

\* The results objects handed to the function: results.scores with or without
\* a page-speed score of 0..100, every combination of the technical flags, no
\* or one broken link, keywords and recommendations at their thresholds.
ScoredResults ==
    { [scores |-> s, technical |-> [name \in TechnicalFlags |-> name \in flags],
       brokenLinks |-> ListOf(b, [url |-> "https://a.io/x", status |-> 404]),
       extractedKeywords |-> ListOf(k, [keyword |-> "cat", count |-> 2]),
       recommendations |-> ListOf(n, "Add structured data markup")] :
        s \in {EmptyObject} \cup {[pageSpeed |-> p] : p \in 0..100},
        flags \in SUBSET TechnicalFlags, b \in {0, 1}, k \in {5, 6}, n \in {2, 3} }

\* calculateOverallScore of the third backend, in hundredths.
CalculateOverallScoreBasic(r) ==
    LET hundredths ==
            100 * 30
            + (IF "pageSpeed" \in DOMAIN r.scores THEN r.scores.pageSpeed * 25 ELSE 0)
            + (IF Flag(r.technical, "hasTitle") THEN 100 * 8 ELSE 0)
            + (IF Flag(r.technical, "hasMetaDescription") THEN 100 * 8 ELSE 0)
            + (IF Flag(r.technical, "hasH1") THEN 100 * 6 ELSE 0)
            + (IF Flag(r.technical, "hasSchemaMarkup") THEN 100 * 10 ELSE 0)
            + (IF Flag(r.technical, "hasSSL") THEN 100 * 8 ELSE 0)
            + (IF Len(r.recommendations) >= 3 THEN 100 * 15 ELSE 0)
    IN  Min(100, Max(0, RoundDiv(hundredths, 100)))

NoScore == -1

ScoreIdle ==
    /\ spc = "idle"
    /\ svariant = "enhanced"
    /\ sresults = EmptyObject
    /\ soverall = NoScore

ScoreInit ==
    /\ spc = "start"
    /\ svariant \in ScoreVariants
    /\ sresults \in ScoredResults
    /\ soverall = NoScore

\* src/server.js:625
ScoreEnhanced ==
    /\ spc = "start"
    /\ svariant = "enhanced"
    /\ soverall' = CalculateOverallScore("enhanced", sresults)
    /\ spc' = "done"
    /\ UNCHANGED <<svariant, sresults>>

\* src/unnamed/part_000:1256
ScoreGeo ==
    /\ spc = "start"
    /\ svariant = "geo"
    /\ soverall' = CalculateOverallScore("geo", sresults)
    /\ spc' = "done"
    /\ UNCHANGED <<svariant, sresults>>

\* src/server.js:1339
ScoreBasic ==
    /\ spc = "start"
    /\ svariant = "basic"
    /\ soverall' = CalculateOverallScoreBasic(sresults)
    /\ spc' = "done"
    /\ UNCHANGED <<svariant, sresults>>

ScoreNext ==
    \/ ScoreEnhanced /\ UNCHANGED <<linkVars, kwVars, techVars, analyzeVars, geoVars, concurrentVars, entitlementVars, registryVars, orderVars>>
    \/ ScoreGeo /\ UNCHANGED <<linkVars, kwVars, techVars, analyzeVars, geoVars, concurrentVars, entitlementVars, registryVars, orderVars>>
    \/ ScoreBasic /\ UNCHANGED <<linkVars, kwVars, techVars, analyzeVars, geoVars, concurrentVars, entitlementVars, registryVars, orderVars>>

-----------------------------------------------------------------------------
\* Two requests to POST /api/analyze-seo of one server, interleaved at the
\* await of the analysis; analysisResults and customers are the server's maps.

Requests == {1, 2}

\* The latest value of Date.now() the model follows.
MaxClock == 2

KnownCustomer == "c1"

\* req.body of a request, and whether its page can be fetched: the url, and a
\* customerId that is not given, that of a current customer, or unknown.
RequestInputs ==
    [url : {"https://a.io/", "https://b.io/"},
     customerId : {"none", KnownCustomer, "c9"},
     up : BOOLEAN]

\* The report of an analysis, reduced to what tells two reports apart.
ReportOf(input) == [url |-> input.url, fetched |-> input.up]

\* What the endpoint answers to a request that is served alone.
AloneAnswer(v, input) ==
    IF v = "enhanced" /\ input.customerId \notin {"none", KnownCustomer}
    THEN Answer(403, "Valid subscription required", EmptyObject)
    ELSE Answer(200, "", ReportOf(input))

\* analysisResults.set(analysisId, entry) with analysisId = customerId-Date.now()
MapSet(map, entry) == {e \in map : e.id # entry.id} \cup {entry}

ConcurrentIdle ==
    /\ cvariant = "enhanced"
    /\ cpc = [r \in Requests |-> "idle"]
    /\ cinput = [r \in Requests |-> [url |-> "https://a.io/", customerId |-> "none", up |-> TRUE]]
    /\ cclock = 0
    /\ analysisResults = {}
    /\ analysisCount = 0
    /\ cresponse = [r \in Requests |-> NoAnswer]

ConcurrentInit ==
    /\ cvariant \in Variants
    /\ cpc = [r \in Requests |-> "start"]
    /\ cinput \in [Requests -> RequestInputs]
    /\ cclock = 0
    /\ analysisResults = {}
    /\ analysisCount = 0
    /\ cresponse = [r \in Requests |-> NoAnswer]

\* The handler up to its await: the customer check of the enhanced backend.
Admit(r) ==
    /\ cpc[r] = "start"
    /\ IF cvariant = "enhanced" /\ cinput[r].customerId \notin {"none", KnownCustomer}
       THEN /\ cpc' = [cpc EXCEPT ![r] = "done"]
            /\ cresponse' = [cresponse EXCEPT
                  ![r] = Answer(403, "Valid subscription required", EmptyObject)]
       ELSE /\ cpc' = [cpc EXCEPT ![r] = "analysing"]
            /\ UNCHANGED cresponse
    /\ UNCHANGED <<cvariant, cinput, cclock, analysisResults, analysisCount>>

ReturnAndStoreCounting(r) ==
    /\ cpc[r] = "analysing"
    /\ LET report == ReportOf(cinput[r])
           id == cinput[r].customerId
       IN  /\ IF cvariant = "enhanced" /\ id # "none"
              THEN /\ analysisResults' = MapSet(analysisResults,
                          [id |-> <<id, cclock>>, url |-> cinput[r].url,
                           results |-> report, timestamp |-> cclock, customerId |-> id])
                   /\ analysisCount' = analysisCount + 1
              ELSE UNCHANGED <<analysisResults, analysisCount>>
           /\ cresponse' = [cresponse EXCEPT
                 ![r] = Answer(200, "", [report EXCEPT !.fetched = analysisCount = 0])]
    /\ cpc' = [cpc EXCEPT ![r] = "done"]
    /\ UNCHANGED <<cvariant, cinput, cclock>>

\* The analysis of a request returns and its handler runs to the end: the
\* enhanced backend stores the report and counts it for a request with a
\* customerId, then the report is answered.
ReturnAndStore(r) ==
    /\ cpc[r] = "analysing"
    /\ LET report == ReportOf(cinput[r])
           id == cinput[r].customerId
       IN  /\ IF cvariant = "enhanced" /\ id # "none"
              THEN /\ analysisResults' = MapSet(analysisResults,
                          [id |-> <<id, cclock>>, url |-> cinput[r].url,
                           results |-> report, timestamp |-> cclock, customerId |-> id])
                   /\ analysisCount' = analysisCount + 1
              ELSE UNCHANGED <<analysisResults, analysisCount>>
           /\ cresponse' = [cresponse EXCEPT ![r] = Answer(200, "", report)]
    /\ cpc' = [cpc EXCEPT ![r] = "done"]
    /\ UNCHANGED <<cvariant, cinput, cclock>>

\* A millisecond passes.
Tick ==
    /\ cclock < MaxClock
    /\ \E r \in Requests : cpc[r] # "done"
    /\ cclock' = cclock + 1
    /\ UNCHANGED <<cvariant, cpc, cinput, analysisResults, analysisCount, cresponse>>

ConcurrentNext ==
    \/ (\E r \in Requests : Admit(r))
          /\ UNCHANGED <<linkVars, kwVars, techVars, analyzeVars, geoVars, scoreVars, entitlementVars, registryVars, orderVars>>
    \/ (\E r \in Requests : ReturnAndStore(r))
          /\ UNCHANGED <<linkVars, kwVars, techVars, analyzeVars, geoVars, scoreVars, entitlementVars, registryVars, orderVars>>
    \/ Tick /\ UNCHANGED <<linkVars, kwVars, techVars, analyzeVars, geoVars, scoreVars, entitlementVars, registryVars, orderVars>>

-----------------------------------------------------------------------------
\* Entitlement over time: the customers map of the enhanced backend
\* (src/server.js), registrations by the webhook, and analysis requests that
\* carry a customerId.  Time is counted in years.

\* The latest year the model follows.
MaxTime == 3

\* The registrations and the analysis requests the model follows.
MaxRegistrations == 2
MaxRequests == 2

MAX_CUSTOMERS == 100

\* oneYearFromPurchase.setFullYear(oneYearFromPurchase.getFullYear() + 1)
ValidityYears == 1

\* The values generateCustomerId can return.
CustomerIds == {"c1", "c2"}

\* req.body.customerId: not given, an id the webhook can hand out, or another.
RequestIds == {"none", "c9"} \cup CustomerIds

NoCustomer == [known |-> FALSE, purchaseDate |-> 0, analysisCount |-> 0]

VerifyAccessKnownOnly(map, id, time) ==
    /\ id \in DOMAIN map
    /\ map[id].known

\* verifyCustomerAccess(customerId) at the given time
VerifyAccess(map, id, time) ==
    /\ id \in DOMAIN map
    /\ map[id].known
    /\ time <= map[id].purchaseDate + ValidityYears

EntitlementIdle ==
    /\ now = 0
    /\ customers = [id \in CustomerIds |-> NoCustomer]
    /\ customerCount = 0
    /\ epc = "off"
    /\ erequest = [urlGiven |-> FALSE, customerId |-> "none"]
    /\ erequests = 0
    /\ efetches = 0
    /\ eresults = 0
    /\ eanswer = 0

EntitlementInit ==
    /\ now = 0
    /\ customers = [id \in CustomerIds |-> NoCustomer]
    /\ customerCount = 0
    /\ epc = "idle"
    /\ erequest = [urlGiven |-> FALSE, customerId |-> "none"]
    /\ erequests = 0
    /\ efetches = 0
    /\ eresults = 0
    /\ eanswer = 0

\* A year passes.
Pass ==
    /\ epc # "off"
    /\ now < MaxTime
    /\ now' = now + 1
    /\ UNCHANGED <<customers, customerCount, epc, erequest, erequests, efetches, eresults,
                   eanswer>>

\* POST /webhook/new-customer: a customer is created under a fresh id, with
\* the purchase date of today.
Register ==
    /\ epc # "off"
    /\ customerCount < MAX_CUSTOMERS
    /\ customerCount < MaxRegistrations
    /\ \E id \in CustomerIds :
          customers' = [customers EXCEPT
              ![id] = [known |-> TRUE, purchaseDate |-> now, analysisCount |-> 0]]
    /\ customerCount' = customerCount + 1
    /\ UNCHANGED <<now, epc, erequest, erequests, efetches, eresults, eanswer>>

\* POST /api/analyze-seo is received.
Receive ==
    /\ epc \in {"idle", "done"}
    /\ erequests < MaxRequests
    /\ erequest' \in [urlGiven : BOOLEAN, customerId : RequestIds]
    /\ erequests' = erequests + 1
    /\ epc' = "start"
    /\ efetches' = 0
    /\ eanswer' = 0
    /\ UNCHANGED <<now, customers, customerCount, eresults>>

\* The checks of the handler, up to the await of the analysis, which issues
\* the first request of the analysis.
Check ==
    /\ epc = "start"
    /\ IF ~erequest.urlGiven
       THEN epc' = "done" /\ eanswer' = 400 /\ UNCHANGED efetches
       ELSE IF erequest.customerId # "none"
               /\ ~VerifyAccess(customers, erequest.customerId, now)
       THEN epc' = "done" /\ eanswer' = 403 /\ UNCHANGED efetches
       ELSE epc' = "analysing" /\ efetches' = efetches + 1 /\ UNCHANGED eanswer
    /\ UNCHANGED <<now, customers, customerCount, erequest, erequests, eresults>>

\* The analysis returns: the report of a request with a customerId is stored
\* and counted, then answered.
Finish ==
    /\ epc = "analysing"
    /\ LET id == erequest.customerId
       IN  IF id # "none"
           THEN /\ eresults' = eresults + 1
                /\ customers' = IF id \in CustomerIds /\ customers[id].known
                                THEN [customers EXCEPT ![id].analysisCount = @ + 1]
                                ELSE customers
           ELSE UNCHANGED <<eresults, customers>>
    /\ epc' = "done"
    /\ eanswer' = 200
    /\ UNCHANGED <<now, customerCount, erequest, erequests, efetches>>

EntitlementNext ==
    \/ Pass /\ UNCHANGED <<linkVars, kwVars, techVars, analyzeVars, geoVars, scoreVars,
                           concurrentVars, registryVars, orderVars>>
    \/ Register /\ UNCHANGED <<linkVars, kwVars, techVars, analyzeVars, geoVars, scoreVars,
                               concurrentVars, registryVars, orderVars>>
    \/ Receive /\ UNCHANGED <<linkVars, kwVars, techVars, analyzeVars, geoVars, scoreVars,
                              concurrentVars, registryVars, orderVars>>
    \/ Check /\ UNCHANGED <<linkVars, kwVars, techVars, analyzeVars, geoVars, scoreVars,
                            concurrentVars, registryVars, orderVars>>
    \/ Finish /\ UNCHANGED <<linkVars, kwVars, techVars, analyzeVars, geoVars, scoreVars,
                             concurrentVars, registryVars, orderVars>>

-----------------------------------------------------------------------------
\* Customer registration and session tokens (POST /webhook/new-customer,
\* POST /api/ghl-webhook, POST /api/verify-access, validateToken)

MaxSignups == 2
MaxTokens == 2

MAX_CUSTOMERS_GEO == 1000

\* MAX_CUSTOMERS of the backend.
MaxCustomers(v) == IF v = "enhanced" THEN MAX_CUSTOMERS ELSE MAX_CUSTOMERS_GEO

\* 'test@example.com', and an address in the two spellings a webhook may send.
EmailTest == <<"t", "@", "x">>
EmailNew == <<"a", "@", "x">>
EmailNewUpper == <<"A", "@", "x">>
Emails == {EmailTest, EmailNew, EmailNewUpper}

\* The email of a request body: absent (or another falsy value), a string, or
\* a non-zero number.
EmailValues ==
    {[kind |-> "missing", text |-> <<>>], [kind |-> "number", text |-> <<>>]}
    \cup {[kind |-> "string", text |-> e] : e \in Emails}

\* crypto.randomBytes(4).toString('hex').toUpperCase(): any of the codes.
AccessCodes == {1, 2}

\* 'TEST123'
TestCode == 0

\* Codes a caller may send with verify-access: none, one that no customer
\* has, or one of the codes.
NoCode == -1
WrongCode == -2
CodeInputs == {NoCode, WrongCode, TestCode} \cup AccessCodes

\* sessionToken: null
NoToken == 0

\* The test customer set at start-up.
TestCustomer == [email |-> EmailTest, accessCode |-> TestCode, sessionToken |-> NoToken]

\* No customer: new Map().
NoCustomers == [key \in {} |-> TestCustomer]

\* The key of a new customer of the enhanced backend: generateCustomerId()
\* draws 8 random bytes, taken to differ from every earlier draw: the keys
\* are numbered as drawn.
GenerateCustomerId(map) == <<"cust_", ToString(Cardinality(DOMAIN map) + 1)>>

\* The emails sent to the enhanced backend: every webhook of a paying
\* customer carries the same address.
WebhookEmails == {e \in EmailValues : e.kind = "string" => e.text = EmailNew}

\* GET /api/availability (and the health check of both backends).
Availability ==
    [available |-> rcount < MaxCustomers(rvariant),
     spotsLeft |-> MaxCustomers(rvariant) - rcount,
     totalCustomers |-> rcount]

\* The call answered last: which, with what status, and for which store key.
NoKey == <<>>
Last(op, status, key) == [op |-> op, status |-> status, key |-> key]

\* validateToken: a token is given and some customer holds it.
ValidateToken(map, token) ==
    /\ token # NoToken
    /\ \E key \in DOMAIN map : map[key].sessionToken = token

RegistryIdle ==
    /\ rvariant = "enhanced"
    /\ rcustomers = NoCustomers
    /\ rcount = 0
    /\ rtokens = 0
    /\ rissued = NoCustomers
    /\ rlast = Last("off", 0, NoKey)

\* The store after the module was loaded.
RegistryInit ==
    /\ rvariant \in Variants
    /\ rcustomers = IF rvariant = "enhanced" THEN NoCustomers
                    ELSE (EmailTest :> TestCustomer)
    /\ rcount = IF rvariant = "enhanced" THEN 0 ELSE 1
    /\ rtokens = 0
    /\ rissued = IF rvariant = "enhanced" THEN NoCustomers ELSE (EmailTest :> <<>>)
    /\ rlast = Last("none", 0, NoKey)

\* POST /webhook/new-customer of the enhanced backend.
NewCustomerWebhook ==
    /\ rvariant = "enhanced"
    /\ \E email \in WebhookEmails, nameGiven \in BOOLEAN :
          IF rcount >= MAX_CUSTOMERS
          THEN \* 'Customer limit reached'
               /\ rlast' = Last("register", 400, NoKey)
               /\ UNCHANGED <<rcustomers, rcount>>
          ELSE IF ~nameGiven /\ email.kind # "string"
          THEN \* email.split throws while the name is computed
               /\ rlast' = Last("register", 500, NoKey)
               /\ UNCHANGED <<rcustomers, rcount>>
          ELSE IF email.kind = "missing"
          THEN \* 'Email is required'
               /\ rlast' = Last("register", 400, NoKey)
               /\ UNCHANGED <<rcustomers, rcount>>
          ELSE IF email.kind = "number"
          THEN \* customerCount++, then email.split throws in generateCredentials
               /\ rcount' = rcount + 1
               /\ rlast' = Last("register", 500, NoKey)
               /\ UNCHANGED rcustomers
          ELSE /\ rcount' = rcount + 1
               /\ rcustomers' = (GenerateCustomerId(rcustomers) :>
                                    [email |-> email.text, analysisCount |-> 0])
                                @@ rcustomers
               /\ rlast' = Last("register", 200, NoKey)
    /\ UNCHANGED <<rvariant, rtokens, rissued>>

\* POST /api/ghl-webhook of the geo backend; the count is followed up to the
\* given limit.
GhlWebhook(limit) ==
    /\ rvariant = "geo"
    /\ rcount <= limit
    /\ \E contact \in BOOLEAN, email \in EmailValues, code \in AccessCodes :
          IF ~contact \/ email.kind = "missing"
          THEN \* 'Invalid webhook data'
               /\ rlast' = Last("register", 400, NoKey)
               /\ UNCHANGED <<rcustomers, rcount, rissued>>
          ELSE IF email.kind = "number"
          THEN \* contact.email.toLowerCase throws
               /\ rlast' = Last("register", 500, NoKey)
               /\ UNCHANGED <<rcustomers, rcount, rissued>>
          ELSE LET key == ToLowerCase(email.text)
               IN  /\ rcustomers' = (key :> [email |-> key, accessCode |-> code,
                                             sessionToken |-> NoToken])
                                    @@ rcustomers
                   /\ rcount' = rcount + 1
                   /\ rissued' = (key :> <<>>) @@ rissued
                   /\ rlast' = Last("register", 200, key)
    /\ UNCHANGED <<rvariant, rtokens>>

\* verify-access that keeps the session token a customer already has.
VerifyAccessCallKeepingToken ==
    /\ rvariant = "geo"
    /\ \E email \in EmailValues, code \in CodeInputs :
          IF email.kind = "missing" \/ code = NoCode
          THEN /\ rlast' = Last("verify", 400, NoKey)
               /\ UNCHANGED <<rcustomers, rtokens, rissued>>
          ELSE IF email.kind = "number"
          THEN \* email.toLowerCase throws
               /\ rlast' = Last("verify", 500, NoKey)
               /\ UNCHANGED <<rcustomers, rtokens, rissued>>
          ELSE LET key == ToLowerCase(email.text)
               IN  IF key \notin DOMAIN rcustomers \/ rcustomers[key].accessCode # code
                   THEN /\ rlast' = Last("verify", 401, key)
                        /\ UNCHANGED <<rcustomers, rtokens, rissued>>
                   ELSE /\ rtokens < MaxTokens
                        /\ rtokens' = rtokens + 1
                        /\ rcustomers' = [rcustomers EXCEPT ![key].sessionToken =
                                           IF @ = NoToken THEN rtokens' ELSE @]
                        /\ rissued' = [rissued EXCEPT ![key] = Append(@, rtokens')]
                        /\ rlast' = Last("verify", 200, key)
    /\ UNCHANGED <<rvariant, rcount>>

\* POST /api/verify-access of the geo backend. crypto.randomBytes(32) is taken
\* to differ from every earlier draw: the tokens are numbered as issued.
VerifyAccessCall ==
    /\ rvariant = "geo"
    /\ \E email \in EmailValues, code \in CodeInputs :
          IF email.kind = "missing" \/ code = NoCode
          THEN /\ rlast' = Last("verify", 400, NoKey)
               /\ UNCHANGED <<rcustomers, rtokens, rissued>>
          ELSE IF email.kind = "number"
          THEN \* email.toLowerCase throws
               /\ rlast' = Last("verify", 500, NoKey)
               /\ UNCHANGED <<rcustomers, rtokens, rissued>>
          ELSE LET key == ToLowerCase(email.text)
               IN  IF key \notin DOMAIN rcustomers \/ rcustomers[key].accessCode # code
                   THEN /\ rlast' = Last("verify", 401, key)
                        /\ UNCHANGED <<rcustomers, rtokens, rissued>>
                   ELSE /\ rtokens < MaxTokens
                        /\ rtokens' = rtokens + 1
                        /\ rcustomers' = [rcustomers EXCEPT ![key].sessionToken = rtokens']
                        /\ rissued' = [rissued EXCEPT ![key] = Append(@, rtokens')]
                        /\ rlast' = Last("verify", 200, key)
    /\ UNCHANGED <<rvariant, rcount>>

\* A request passes validateToken with any token, or with none.
ValidateCall ==
    /\ rvariant = "geo"
    /\ \E token \in 0..MaxTokens :
          rlast' = Last("validate", IF ValidateToken(rcustomers, token) THEN 200 ELSE 401,
                        NoKey)
    /\ UNCHANGED <<rvariant, rcustomers, rcount, rtokens, rissued>>

RegistryNext ==
    \/ NewCustomerWebhook /\ UNCHANGED <<linkVars, kwVars, techVars, analyzeVars, geoVars, scoreVars, concurrentVars, entitlementVars, orderVars>>
    \/ GhlWebhook(MAX_CUSTOMERS_GEO) /\ UNCHANGED <<linkVars, kwVars, techVars, analyzeVars, geoVars, scoreVars, concurrentVars, entitlementVars, orderVars>>

TokensNext ==
    \/ GhlWebhook(MaxSignups) /\ UNCHANGED <<linkVars, kwVars, techVars, analyzeVars, geoVars, scoreVars, concurrentVars, entitlementVars, orderVars>>
    \/ VerifyAccessCall /\ UNCHANGED <<linkVars, kwVars, techVars, analyzeVars, geoVars, scoreVars, concurrentVars, entitlementVars, orderVars>>
    \/ ValidateCall /\ UNCHANGED <<linkVars, kwVars, techVars, analyzeVars, geoVars, scoreVars, concurrentVars, entitlementVars, orderVars>>

-----------------------------------------------------------------------------
\* The analyzers of one analysis request, run in any order: the statements
\* that merge each analyzer's result into the results object (server.js
\* 305-332, part_000 66-125), each applied when its analyzer returns.

\* The fixed responses of the network and of the external services: the
\* page, whether it can be fetched, the answer to every link probe, and what
\* the page-speed and completion services answer.
OrderInputs ==
    [url : {[kind |-> "string", text |-> BaseUrl], [kind |-> "number", text |-> <<>>]},
     site : AnalyzedPages,
     keys : [google : BOOLEAN, openai : BOOLEAN],
     speed : PageSpeedAnswers,
     up : BOOLEAN,
     probe : PlainProbeOutcomes,
     completion : CompletionCases]

\* The analyzers a request runs: page-speed and recommendations need a key,
\* the link audit is a call of its own in the geo backend only.
Analyzers(v, in) ==
    {"technical", "keywords"}
    \cup (IF in.keys.google THEN {"speed"} ELSE {})
    \cup (IF v = "geo" THEN {"links"} ELSE {})
    \cup (IF in.keys.openai THEN {"ai"} ELSE {})

\* The answers to the probes of the selected links.
FixedProbes(v, in) ==
    [i \in 1..(IF Fetchable(in.url) /\ in.up THEN Len(SelectedLinks(v, in.url, in.site))
               ELSE 0) |-> in.probe]

\* results.scores.pageSpeed = ...; results.technical.loadTime = ...
MergePageSpeed(in, r) ==
    [r EXCEPT
        !.scores = ("pageSpeed" :> (IF in.speed.ok THEN PageSpeedScore(in.speed.permille)
                                    ELSE DefaultSpeedScore)) @@ @,
        !.technical = ("loadTime" :> (IF in.speed.ok THEN "1.0 s" ELSE "Unknown")) @@ @]

\* The technical analyzer of the backend as one call.
TechnicalData(v, in) ==
    IF v = "enhanced"
    THEN TechnicalWithLinks(in.url, in.site, in.up, in.up, FixedProbes(v, in))
    ELSE AnalyzeTechnicalSEO(in.url, in.site, in.up)

\* results.technical = { ...results.technical, ...technicalData }, with
\* results.brokenLinks in the enhanced backend; a throwing analyzer of the geo
\* backend is caught and changes nothing.
MergeTechnical(v, in, r) ==
    LET t == TechnicalData(v, in)
    IN  IF t.thrown THEN r
        ELSE IF v = "enhanced"
        THEN [r EXCEPT !.technical = t.value.technical @@ @,
                       !.brokenLinks = t.value.brokenLinks]
        ELSE [r EXCEPT !.technical = t.value @@ @]

\* The link audit assigning a new technical object instead of one property.
MergeLinksReplacing(v, in, r) ==
    LET audit == LinkAudit(v, in.url, in.site, in.up, FixedProbes(v, in))
    IN  [r EXCEPT !.brokenLinks = audit.brokenLinks,
                  !.technical = ("totalLinks" :> audit.totalLinks)]

\* results.brokenLinks = ...; results.technical.totalLinks = ...
MergeLinks(v, in, r) ==
    LET audit == LinkAudit(v, in.url, in.site, in.up, FixedProbes(v, in))
    IN  [r EXCEPT !.brokenLinks = audit.brokenLinks,
                  !.technical = ("totalLinks" :> audit.totalLinks) @@ @]

\* results.extractedKeywords = keywordData.keywords
MergeKeywords(v, in, r) ==
    [r EXCEPT !.extractedKeywords = KeywordData(v, in.url, in.site, in.up).keywords]

\* results.recommendations = ..., from the content the analyzer was given.
MergeAi(v, in, text, r) ==
    [r EXCEPT !.recommendations = AiRecommendations(v, in.url, text, in.up, in.completion)]

\* The answer of the endpoint when the analyzers run in the order of the code.
SequentialAnswer(v, in) ==
    LET todo == Analyzers(v, in)
        r1 == IF "speed" \in todo THEN MergePageSpeed(in, NewResults(in.url))
              ELSE NewResults(in.url)
        r2 == MergeTechnical(v, in, r1)
        r3 == IF "links" \in todo THEN MergeLinks(v, in, r2) ELSE r2
        r4 == MergeKeywords(v, in, r3)
        r5 == IF "ai" \in todo
              THEN MergeAi(v, in, KeywordData(v, in.url, in.site, in.up).content, r4)
              ELSE r4
    IN  IF v = "enhanced" /\ TechnicalData(v, in).thrown
        THEN Answer(500, "Analysis failed", EmptyObject)
        ELSE Answer(200, "", Completed(v, r5))

OrderIdle ==
    /\ ovariant = "enhanced"
    /\ opc = "idle"
    /\ oinput = [url |-> [kind |-> "string", text |-> BaseUrl], site |-> PlainPage,
                 keys |-> [google |-> FALSE, openai |-> FALSE],
                 speed |-> [ok |-> FALSE, permille |-> 0], up |-> FALSE,
                 probe |-> [kind |-> "http", status |-> 200, code |-> "none"],
                 completion |-> [ok |-> FALSE, lines |-> 0]]
    /\ odone = <<>>
    /\ oearly = FALSE
    /\ oresults = NewResults(oinput.url)
    /\ ocontent = <<>>
    /\ oanswer = NoAnswer

OrderInit ==
    /\ ovariant \in Variants
    /\ opc = "running"
    /\ oinput \in OrderInputs
    /\ odone = <<>>
    /\ oearly = FALSE
    /\ oresults = NewResults(oinput.url)
    /\ ocontent = <<>>
    /\ oanswer = NoAnswer

\* An analyzer that has not run yet may return next.
MayRun(a) == opc = "running" /\ a \in Analyzers(ovariant, oinput) \ Range(odone)

OrderPageSpeed ==
    /\ MayRun("speed")
    /\ odone' = Append(odone, "speed")
    /\ oresults' = MergePageSpeed(oinput, oresults)
    /\ UNCHANGED <<ovariant, opc, oinput, oearly, ocontent, oanswer>>

\* The technical analyzer returns; when it throws in the enhanced backend the
\* analysis is left and the endpoint answers 500.
OrderTechnical ==
    /\ MayRun("technical")
    /\ odone' = Append(odone, "technical")
    /\ IF ovariant = "enhanced" /\ TechnicalData(ovariant, oinput).thrown
       THEN /\ opc' = "done"
            /\ oanswer' = Answer(500, "Analysis failed", EmptyObject)
            /\ UNCHANGED oresults
       ELSE /\ oresults' = MergeTechnical(ovariant, oinput, oresults)
            /\ UNCHANGED <<opc, oanswer>>
    /\ UNCHANGED <<ovariant, oinput, oearly, ocontent>>

OrderLinks ==
    /\ MayRun("links")
    /\ odone' = Append(odone, "links")
    /\ oresults' = MergeLinks(ovariant, oinput, oresults)
    /\ UNCHANGED <<ovariant, opc, oinput, oearly, ocontent, oanswer>>

OrderKeywords ==
    /\ MayRun("keywords")
    /\ odone' = Append(odone, "keywords")
    /\ oresults' = MergeKeywords(ovariant, oinput, oresults)
    /\ ocontent' = KeywordData(ovariant, oinput.url, oinput.site, oinput.up).content
    /\ UNCHANGED <<ovariant, opc, oinput, oearly, oanswer>>

\* The recommendations analyzer runs with the content at hand: in the enhanced
\* backend keywordData.content, which is missing until the keyword extractor
\* has returned.
OrderAi ==
    /\ MayRun("ai")
    /\ odone' = Append(odone, "ai")
    /\ oresults' = MergeAi(ovariant, oinput, ocontent, oresults)
    /\ oearly' = (ovariant = "enhanced" /\ "keywords" \notin Range(odone))
    /\ UNCHANGED <<ovariant, opc, oinput, ocontent, oanswer>>

\* Every analyzer has returned: issues, opportunities and the overall score
\* are computed and the report is answered.
OrderFinish ==
    /\ opc = "running"
    /\ Range(odone) = Analyzers(ovariant, oinput)
    /\ opc' = "done"
    /\ oresults' = Completed(ovariant, oresults)
    /\ oanswer' = Answer(200, "", oresults')
    /\ UNCHANGED <<ovariant, oinput, odone, oearly, ocontent>>

OrderNext ==
    \/ OrderPageSpeed /\ UNCHANGED <<linkVars, kwVars, techVars, analyzeVars, geoVars, scoreVars, concurrentVars, entitlementVars, registryVars>>
    \/ OrderTechnical /\ UNCHANGED <<linkVars, kwVars, techVars, analyzeVars, geoVars, scoreVars, concurrentVars, entitlementVars, registryVars>>
    \/ OrderLinks /\ UNCHANGED <<linkVars, kwVars, techVars, analyzeVars, geoVars, scoreVars, concurrentVars, entitlementVars, registryVars>>
    \/ OrderKeywords /\ UNCHANGED <<linkVars, kwVars, techVars, analyzeVars, geoVars, scoreVars, concurrentVars, entitlementVars, registryVars>>
    \/ OrderAi /\ UNCHANGED <<linkVars, kwVars, techVars, analyzeVars, geoVars, scoreVars, concurrentVars, entitlementVars, registryVars>>
    \/ OrderFinish /\ UNCHANGED <<linkVars, kwVars, techVars, analyzeVars, geoVars, scoreVars, concurrentVars, entitlementVars, registryVars>>

-----------------------------------------------------------------------------
\* Specifications

LinkNext ==
    \/ AuditFetchFails /\ UNCHANGED <<kwVars, techVars, analyzeVars, geoVars, scoreVars, concurrentVars, entitlementVars, registryVars, orderVars>>
    \/ AuditExtract /\ UNCHANGED <<kwVars, techVars, analyzeVars, geoVars, scoreVars, concurrentVars, entitlementVars, registryVars, orderVars>>
    \/ AuditProbe /\ UNCHANGED <<kwVars, techVars, analyzeVars, geoVars, scoreVars, concurrentVars, entitlementVars, registryVars, orderVars>>
    \/ AuditReturn /\ UNCHANGED <<kwVars, techVars, analyzeVars, geoVars, scoreVars, concurrentVars, entitlementVars, registryVars, orderVars>>

\* One call of it is followed; whatever else the model holds stays idle.
LinksStart == LinkInit /\ KwIdle /\ TechIdle /\ AnalyzeIdle /\ GeoIdle /\ ScoreIdle
    /\ ConcurrentIdle /\ EntitlementIdle /\ RegistryIdle /\ OrderIdle

SpecLinks == LinksStart /\ [][LinkNext]_vars

\* One call of it is followed; whatever else the model holds stays idle.
KeywordsStart == KwInit /\ LinkIdle /\ TechIdle /\ AnalyzeIdle /\ GeoIdle /\ ScoreIdle
    /\ ConcurrentIdle /\ EntitlementIdle /\ RegistryIdle /\ OrderIdle

SpecKeywords == KeywordsStart /\ [][KwNext]_vars

\* One call of it is followed; whatever else the model holds stays idle.
TechStart == TechInit /\ LinkIdle /\ KwIdle /\ AnalyzeIdle /\ GeoIdle /\ ScoreIdle
    /\ ConcurrentIdle /\ EntitlementIdle /\ RegistryIdle /\ OrderIdle

SpecTech == TechStart /\ [][TechNext]_vars

\* One call of it is followed; whatever else the model holds stays idle.
AnalyzeStart == AnalyzeInit /\ LinkIdle /\ KwIdle /\ TechIdle /\ GeoIdle /\ ScoreIdle
    /\ ConcurrentIdle /\ EntitlementIdle /\ RegistryIdle /\ OrderIdle

SpecAnalyze == AnalyzeStart /\ [][AnalyzeNext]_vars

\* One call of it is followed; whatever else the model holds stays idle.
GeoStart == GeoInit /\ LinkIdle /\ KwIdle /\ TechIdle /\ AnalyzeIdle /\ ScoreIdle
    /\ ConcurrentIdle /\ EntitlementIdle /\ RegistryIdle /\ OrderIdle

SpecGeo == GeoStart /\ [][GeoNext]_vars

\* One call of it is followed; whatever else the model holds stays idle.
ScoreStart == ScoreInit /\ LinkIdle /\ KwIdle /\ TechIdle /\ AnalyzeIdle /\ GeoIdle
    /\ ConcurrentIdle /\ EntitlementIdle /\ RegistryIdle /\ OrderIdle

SpecScore == ScoreStart /\ [][ScoreNext]_vars

\* Two requests are followed; whatever else the model holds stays idle.
ConcurrentStart ==
    ConcurrentInit /\ LinkIdle /\ KwIdle /\ TechIdle /\ AnalyzeIdle /\ GeoIdle /\ ScoreIdle
    /\ EntitlementIdle /\ RegistryIdle /\ OrderIdle

SpecConcurrent == ConcurrentStart /\ [][ConcurrentNext]_vars

\* The customers map and one request at a time are followed; whatever else
\* the model holds stays idle.
EntitlementStart ==
    EntitlementInit /\ LinkIdle /\ KwIdle /\ TechIdle /\ AnalyzeIdle /\ GeoIdle /\ ScoreIdle
    /\ ConcurrentIdle /\ RegistryIdle /\ OrderIdle

SpecEntitlement == EntitlementStart /\ [][EntitlementNext]_vars

\* The registrations of one backend are followed up to its cap and one past
\* it; whatever else the model holds stays idle.
RegistryStart ==
    RegistryInit /\ LinkIdle /\ KwIdle /\ TechIdle /\ AnalyzeIdle /\ GeoIdle /\ ScoreIdle
    /\ ConcurrentIdle /\ EntitlementIdle /\ OrderIdle

SpecRegistry == RegistryStart /\ [][RegistryNext]_vars

\* The registrations, verifications and token validations of the geo backend
\* are followed; whatever else the model holds stays idle.
TokensStart ==
    RegistryInit /\ rvariant = "geo" /\ LinkIdle /\ KwIdle /\ TechIdle /\ AnalyzeIdle
    /\ GeoIdle /\ ScoreIdle /\ ConcurrentIdle /\ EntitlementIdle /\ OrderIdle

SpecTokens == TokensStart /\ [][TokensNext]_vars

\* The analyzers of one request are followed in every order; whatever else
\* the model holds stays idle.
OrderStart ==
    OrderInit /\ LinkIdle /\ KwIdle /\ TechIdle /\ AnalyzeIdle /\ GeoIdle /\ ScoreIdle
    /\ ConcurrentIdle /\ EntitlementIdle /\ RegistryIdle

SpecOrder == OrderStart /\ [][OrderNext]_vars

\* A probe is broken, in the words of the data model: it resolved to a status
\* of 400 or more, or it failed at transport level.
BrokenProbe(o) == o.kind = "transport" \/ o.status >= 400

\* The URLs of the probed links whose probe was broken, in probe order.
RECURSIVE BrokenUrls(_, _)
BrokenUrls(checked, os) ==
    IF os = <<>> THEN <<>>
    ELSE LET n == Len(os)
             before == BrokenUrls(checked, SubSeq(os, 1, n - 1))
         IN  IF BrokenProbe(os[n]) THEN Append(before, checked[n].url) ELSE before

\* C4: a selected link is in brokenLinks if and only if its probe returned a
\* status of 400 or more or failed at transport level; a link whose probe
\* returned a status below 400 is never listed.
C4_BrokenIffProbeBroken ==
    /\ Len(brokenLinks) = Cardinality({i \in 1..Len(probes) : BrokenProbe(probes[i])})
    /\ [i \in 1..Len(brokenLinks) |-> brokenLinks[i].url] = BrokenUrls(linksToCheck, probes)
    /\ lpc = "done" /\ lfetch = "ok" => lresult.brokenLinks = brokenLinks

\* An audit of three links ended: one probe answered 200, one 404, one failed
\* at transport level, and two links are listed.
C4_Witness ==
    /\ lpc = "done"
    /\ Len(probes) = 3
    /\ \E i, j, k \in 1..3 :
          /\ probes[i].kind = "http" /\ probes[i].status = 200
          /\ probes[j].kind = "http" /\ probes[j].status = 404
          /\ probes[k].kind = "transport"
    /\ Len(lresult.brokenLinks) = 2

\* C5: a failed probe never aborts the audit: once the page was fetched, the
\* audit ends with every selected link probed and with the normal result, whose
\* totalLinks, checkedLinks and link counts are taken over all extracted links.
C5_ProbeFailureIsolated ==
    /\ lfetch = "ok" /\ lpc = "probing" => Len(probes) <= Len(linksToCheck)
    /\ lfetch = "ok" /\ lpc = "done" =>
          /\ Len(probes) = Len(linksToCheck)
          /\ lresult.error = "none"
          /\ lresult.totalLinks = Len(links)
          /\ lresult.checkedLinks = Min(Len(links), ProbeLimit(lvariant))
          /\ lresult.internalLinks = CountInternal(links)
          /\ lresult.externalLinks = CountExternal(links)
          /\ lresult.internalLinks + lresult.externalLinks = lresult.totalLinks

\* An audit ended normally although its first probe failed and later probes
\* were still issued.
C5_Witness ==
    /\ lpc = "done"
    /\ lfetch = "ok"
    /\ Len(probes) = 3
    /\ ProbeThrows(probes[1])
    /\ ~ProbeThrows(probes[3])
    /\ lresult.checkedLinks = 3

\* C6: the deepLinkRatio of every audit result is a number in 0..100, and it
\* is 0, never NaN, when the page yields no links.
C6_DeepLinkRatioInRange ==
    lpc = "done" =>
        /\ ~lresult.deepLinkRatio.nan
        /\ lresult.deepLinkRatio.val \in 0..100
        /\ (Len(links) = 0 => lresult.deepLinkRatio.val = 0)

-----------------------------------------------------------------------------
\* Keyword extraction: claims

\* C7: every returned KeywordRecord has a frequency above 1 and a token longer
\* than two characters that is lowercase and no stop word; the list is in
\* non-increasing order of frequency and has at most twenty entries.
C7_KeywordRecordsWellFormed ==
    kpc = "done" =>
        LET ks == kresult.keywords
        IN  /\ Len(ks) <= 20
            /\ \A i \in 1..Len(ks) :
                  /\ ks[i].frequency > 1
                  /\ Len(ks[i].keyword) > 2
                  /\ \A j \in 1..Len(ks[i].keyword) : ks[i].keyword[j] \notin UpperChars
                  /\ ~IsStopWord(kvariant, ks[i].keyword)
            /\ \A i \in 1..(Len(ks) - 1) : ks[i].frequency >= ks[i + 1].frequency

\* The long page was ranked: twenty keywords are returned out of twenty-two
\* repeated words, the one counted three times first.
C7_Witness ==
    /\ kpc = "done"
    /\ kpage.body = LongBody
    /\ Len(kresult.keywords) = 20
    /\ kresult.keywords[1] = [keyword |-> GeneratedWord(ManyWords), frequency |-> 3]
    /\ kresult.keywords[2].frequency = 2

\* Position of the first occurrence of a token among the counted tokens.
FirstSeen(tokens, word) ==
    CHOOSE i \in 1..Len(tokens) :
        /\ tokens[i] = word
        /\ \A j \in 1..(i - 1) : tokens[j] # word

\* C8: among returned keywords of equal frequency the order is that of the
\* tokens' first occurrence in the counted text, purely numeric tokens
\* included.
C8_TiesInFirstSeenOrder ==
    kpc = "done" =>
        LET ks == kresult.keywords
            tokens == CountedTokens(kvariant, kpage)
        IN  \A i, j \in 1..Len(ks) :
                i < j /\ ks[i].frequency = ks[j].frequency =>
                    FirstSeen(tokens, ks[i].keyword) < FirstSeen(tokens, ks[j].keyword)

-----------------------------------------------------------------------------
\* Technical analysis: claims

SubScoreNames == {"crawlability", "mobileFriendly", "siteSpeed", "security",
                  "htmlStructure", "metaData"}

\* C9: whatever the markup, the response headers and the page-speed result,
\* each of the six technical sub-scores of the returned report lies in 0..100.
C9_SubScoresInRange ==
    tpc = "done" =>
        /\ DOMAIN tresult.scores = SubScoreNames
        /\ \A name \in SubScoreNames : tresult.scores[name] \in 0..100

\* A scored report reached both ends of the scale: crawlability and siteSpeed
\* are 100 for the site that gives every point, and the site gave no security
\* header and no HTTPS, so that security is 0.
C9_Witness ==
    /\ tpc = "done"
    /\ tresult.error = "none"
    /\ tresult.scores.crawlability = 100
    /\ tresult.scores.siteSpeed = 100
    /\ tresult.scores.security = 0

\* C10: when the page request fails, the technical analysis returns overall
\* score 0, six sub-scores of 0, exactly one issue and exactly one
\* recommendation, and nothing of a partly scored report.
C10_FetchFailureFallback ==
    tpc = "done" /\ world.fetch = "fail" =>
        /\ tresult.overallScore = 0
        /\ \A name \in SubScoreNames : tresult.scores[name] = 0
        /\ Len(tresult.issues) = 1
        /\ Len(tresult.recommendations) = 1
        /\ crawlScore = 0
        /\ tscored = NotScored

\* The page request of a site that would have scored well failed, and the
\* analysis returned.
C10_Witness ==
    /\ tpc = "done"
    /\ world = [BestWorld EXCEPT !.fetch = "fail"]
    /\ tresult.issues = <<"Unable to analyze website technical aspects">>

-----------------------------------------------------------------------------
\* Full analysis: claims

ReportFields == {"url", "timestamp", "scores", "technical", "brokenLinks",
                 "extractedKeywords", "issues", "opportunities", "recommendations"}

\* The calls of the analysis to the given destination.
CallsTo(to) == {i \in 1..Len(calls) : calls[i].to = to}

\* C1: for every non-empty URL string and every combination of failing
\* page-speed call, page requests and completion call, the analysis of an
\* admitted request does not fail: the endpoint answers 200 with a report that
\* has url, timestamp, scores with scores.overall, technical, brokenLinks,
\* extractedKeywords, issues, opportunities and recommendations.
C1_AnalysisAlwaysReports ==
    /\ apc = "done"
    /\ request.url.kind = "string" /\ request.url.text # <<>>
    /\ avariant = "enhanced" /\ request.customer.given
          => VerifyCustomerAccess(request.customer)
    => /\ response.status = 200
       /\ ReportFields \subseteq DOMAIN response.data
       /\ "overall" \in DOMAIN response.data.scores
       /\ response.data.scores.overall \in 0..100

\* An analysis was answered although its page-speed call, one of its page
\* requests and its completion call had failed.
C1_Witness ==
    /\ apc = "done"
    /\ response.status = 200
    /\ \E i \in CallsTo("pagespeed") : ~calls[i].ok
    /\ \E i \in CallsTo("page") : ~calls[i].ok
    /\ \E i \in CallsTo("completion") : ~calls[i].ok

\* The url parses as an absolute HTTP or HTTPS URL.
AbsoluteHttpUrl(url) ==
    /\ url.kind = "string"
    /\ \/ /\ StartsWith(url.text, SchemeHttpPlain)
          /\ Len(url.text) > Len(SchemeHttpPlain)
       \/ /\ StartsWith(url.text, SchemeHttps)
          /\ Len(url.text) > Len(SchemeHttps)

\* Every request for the page failed, and there was one.
PageDown ==
    /\ CallsTo("page") # {}
    /\ \A i \in CallsTo("page") : ~calls[i].ok

\* C2: when the page of an absolute HTTP/HTTPS URL cannot be fetched during a
\* full analysis, the report has a technical overall score of 0, exactly one
\* entry in issues, an empty brokenLinks list and an empty extractedKeywords
\* list.
C2_FetchFailureReport ==
    apc = "done" /\ response.status = 200 /\ AbsoluteHttpUrl(request.url) /\ PageDown =>
        /\ "overallScore" \in DOMAIN response.data.technical
        /\ response.data.technical.overallScore = 0
        /\ Len(response.data.issues) = 1
        /\ response.data.brokenLinks = <<>>
        /\ response.data.extractedKeywords = <<>>

\* C3: a request whose url is missing or is no absolute HTTP/HTTPS URL is
\* refused with a client error before any request is handed to the network:
\* no analyzer runs for it.
C3_InvalidUrlRejected ==
    apc = "done" /\ ~AbsoluteHttpUrl(request.url) =>
        /\ response.status \in 400..499
        /\ calls = <<>>


-----------------------------------------------------------------------------
\* Claims about the GEO analysis

\* C11: in every GEO report, degraded or not, the reported total is the sum of
\* the factor scores the report lists and lies in 0..100; a report made
\* without failure lists directAnswers in {0,15,25}, structuredContent in
\* {0,10,20}, faqSections in {0,5,10,15,20}, comprehensiveness in {0,5,10,15},
\* readability in {0,5,10} and questionFormat in {0,5,10}.
C11_GeoScoreIsSumOfFactors ==
    gpc = "done" =>
        /\ greport.geoScore = SumOver(greport.factors, DOMAIN greport.factors)
        /\ greport.geoScore \in 0..100
        /\ "error" \notin DOMAIN greport =>
              /\ DOMAIN greport.factors = GeoFactorNames
              /\ greport.factors.directAnswers \in {0, 15, 25}
              /\ greport.factors.structuredContent \in {0, 10, 20}
              /\ greport.factors.faqSections \in {0, 5, 10, 15, 20}
              /\ greport.factors.comprehensiveness \in {0, 5, 10, 15}
              /\ greport.factors.readability \in {0, 5, 10}
              /\ greport.factors.questionFormat \in {0, 5, 10}

\* A report that reaches the full budget of every factor.
C11_Witness ==
    /\ gpc = "done"
    /\ "error" \notin DOMAIN greport
    /\ greport.geoScore = 100
    /\ greport.factors.questionFormat = 10

\* How many entries of a list are the given one.
Occurrences(xs, x) == Cardinality({i \in DOMAIN xs : xs[i] = x})

C13_FetchFailureAllZero ==
    gpc = "done" /\ gpage.fetch = "fail" =>
        /\ greport.geoScore = 0
        /\ greport.percentage = 0
        /\ \A name \in GeoFactorNames :
              name \in DOMAIN greport.factors /\ greport.factors[name] = 0
        /\ Len(greport.recommendations) = 1

-----------------------------------------------------------------------------
\* Claims about the aggregate score

\* The score as the specification words it:
\* clamp[0,100](round(30 + 25*pageSpeed/100 + 8*[title] + 8*[meta description]
\*   + 8*[HTTPS] + 10*[zero broken links] + 5*[more than 5 keywords])).
Indicator(cond) == IF cond THEN 1 ELSE 0

StatedScore(r) ==
    LET twentieths ==
            20 * 30 + 5 * r.scores.pageSpeed
            + 20 * 8 * Indicator(r.technical.hasTitle)
            + 20 * 8 * Indicator(r.technical.hasMetaDescription)
            + 20 * 8 * Indicator(r.technical.hasSSL)
            + 20 * 10 * Indicator(r.brokenLinks = <<>>)
            + 20 * 5 * Indicator(Len(r.extractedKeywords) > 5)
        rounded == (twentieths + 10) \div 20
    IN  IF rounded > 100 THEN 100 ELSE IF rounded < 0 THEN 0 ELSE rounded

\* The original statement of C14: every calculateOverallScore of the
\* repository returns the stated score, whatever the flags, the page-speed
\* score in 0..100, the broken links and the keywords.
C14_OverallScoreInEveryBackend ==
    spc = "done" /\ "pageSpeed" \in DOMAIN sresults.scores =>
        soverall = StatedScore(sresults)

\* C14 (amended): in the enhanced backend the aggregate overall score is the
\* stated score, the keyword threshold being more than 5 extracted keywords,
\* for every combination of technical flags, page-speed score in 0..100,
\* broken links and keywords.
C14_OverallScoreFormula ==
    spc = "done" /\ svariant = "enhanced" /\ "pageSpeed" \in DOMAIN sresults.scores =>
        soverall = StatedScore(sresults)

\* 30 + 22.5 + 8 + 8 + 8 + 10 + 5 = 91.5, rounded up to 92.
C14_Witness ==
    /\ spc = "done"
    /\ svariant = "enhanced"
    /\ "pageSpeed" \in DOMAIN sresults.scores
    /\ sresults.scores.pageSpeed = 90
    /\ Len(sresults.extractedKeywords) > 5
    /\ sresults.brokenLinks = <<>>
    /\ soverall = 92


-----------------------------------------------------------------------------
\* Claims about the page-speed step

\* The page-speed service was consulted and the call failed or timed out.
PageSpeedFailed == \E i \in CallsTo("pagespeed") : ~calls[i].ok

-----------------------------------------------------------------------------
\* Claims about the requests of one analysis

\* C16: during one full analysis the page of the analysed url is requested
\* exactly once, every analyzer working from the result of that one request.
C16_PageFetchedOnce ==
    apc = "done" /\ response.status = 200 => Cardinality(CallsTo("page")) = 1

-----------------------------------------------------------------------------
\* Claims about concurrent requests

\* The requests that were answered with a report and carried a customerId the
\* enhanced backend stores under.
StoringRequests ==
    {r \in Requests : cpc[r] = "done" /\ cvariant = "enhanced"
                        /\ cinput[r].customerId = KnownCustomer}

-----------------------------------------------------------------------------
\* Claims about entitlement

\* The request in flight carries an identity that is unknown to the customers
\* map, or whose year of entitlement has passed.
NotEntitled(id) ==
    \/ id \notin CustomerIds
    \/ ~customers[id].known
    \/ now > customers[id].purchaseDate + 1

\* C18: an analysis request whose caller identity is unknown to the customers
\* map, or whose entitlement (purchase date plus one year) has passed when the
\* request is checked, is rejected before any fetch is issued and leaves the
\* stored analysis results and every analysis counter as they were; and an
\* identity whose entitlement has passed is entitled again only by a step
\* that registers it anew.
C18_UnentitledRejected ==
    [][ /\ ( /\ epc = "start"
             /\ epc' # "start"
             /\ erequest.customerId # "none"
             /\ NotEntitled(erequest.customerId) )
           => /\ epc' = "done"
              /\ eanswer' \in {400, 403}
              /\ efetches' = 0
              /\ eresults' = eresults
              /\ customers' = customers
        /\ \A id \in CustomerIds :
              ( /\ customers[id].known /\ now > customers[id].purchaseDate + 1
                /\ ~(now' > customers'[id].purchaseDate + 1) )
              => /\ customerCount' = customerCount + 1
                 /\ customers'[id].purchaseDate = now
      ]_vars

\* A request of a customer whose year has passed, who has a stored analysis
\* from before, was answered 403.
C18_Witness ==
    /\ epc = "done"
    /\ eanswer = 403
    /\ erequest.customerId \in CustomerIds
    /\ customers[erequest.customerId].known
    /\ now > customers[erequest.customerId].purchaseDate + 1
    /\ customers[erequest.customerId].analysisCount = 1
    /\ eresults = 1
    /\ efetches = 0


-----------------------------------------------------------------------------
\* Claims about link extraction

\* A target the extraction is to skip: fragment-only, mailto: or tel:.
SkippedTarget(href) ==
    \/ StartsWith(href, <<"#">>)
    \/ StartsWith(href, <<"m", "a", "i", "l", "t", "o", ":">>)
    \/ StartsWith(href, <<"t", "e", "l", ":">>)

\* The anchors of the page whose target is not to be skipped.
KeptAnchors == {i \in DOMAIN anchors : ~SkippedTarget(anchors[i])}

\* C19: link extraction skips every anchor whose target starts with '#',
\* 'mailto:' or 'tel:': the link list holds the other anchors only, none of
\* its URLs is such a target, totalLinks counts the other anchors only, and
\* no more probes are issued than there are other anchors.
C19_SkippedTargetsAbsent ==
    lfetch = "ok" =>
        /\ Len(links) = Cardinality(KeptAnchors)
        /\ \A i \in DOMAIN links : ~SkippedTarget(links[i].url)
        /\ Len(probes) <= Cardinality(KeptAnchors)
        /\ lpc = "done" => lresult.totalLinks = Cardinality(KeptAnchors)

\* new URL(u).hostname: empty for a URL without an authority ("tel:1").
HostOf(u) == IF AfterScheme(u) = 0 THEN <<>> ELSE Hostname(u)

\* C20: a link is classified internal if and only if the hostname of its
\* absolute URL equals the hostname of the base URL, so that a link to
\* another host is external even when the base hostname occurs in its path.
C20_InternalIffSameHost ==
    \A i \in DOMAIN links :
        links[i].isInternal <=> (HostOf(links[i].url) = HostOf(BaseUrl))

-----------------------------------------------------------------------------
\* Claims about the probes of one audit

\* The probe behind the k-th broken-link record: the k-th broken probe.
ProbeOfRecord(k) ==
    CHOOSE i \in 1..Len(probes) :
        /\ BrokenProbe(probes[i])
        /\ Cardinality({j \in 1..i : BrokenProbe(probes[j])}) = k

\* C21: a broken-link record has status 0 exactly when its probe failed at
\* transport level; a probe that received an HTTP response with a status of
\* 400 or more, 5xx included, is recorded with that HTTP status.
C21_StatusZeroIffTransport ==
    \A k \in 1..Len(brokenLinks) :
        LET o == probes[ProbeOfRecord(k)]
        IN  /\ brokenLinks[k].status = 0 <=> o.kind = "transport"
            /\ o.kind = "http" => brokenLinks[k].status = o.status

\* The URLs of a list of link records or broken-link records, in order.
UrlsOf(ls) == [i \in 1..Len(ls) |-> ls[i].url]

\* a can be obtained from b by leaving entries out, the order kept.
RECURSIVE IsSubsequence(_, _)
IsSubsequence(a, b) ==
    IF a = <<>> THEN TRUE
    ELSE IF b = <<>> THEN FALSE
    ELSE IF Head(a) = Head(b) THEN IsSubsequence(Tail(a), Tail(b))
    ELSE IsSubsequence(a, Tail(b))

\* The number of links one audit is to probe.
ProbedCount == Min(Len(links), ProbeLimit(lvariant))

\* C22: the links probed by one audit are exactly the first
\* min(totalLinks, probeLimit) extracted links in document order, each probed
\* once; checkedLinks is that number, brokenLinks has at most that many
\* entries, in document order, and no link beyond the cap is listed.
C22_ProbedPrefix ==
    lfetch = "ok" =>
        /\ linksToCheck = SubSeq(links, 1, ProbedCount)
        /\ Len(probes) <= ProbedCount
        /\ Len(brokenLinks) <= Len(probes)
        /\ IsSubsequence(UrlsOf(brokenLinks), UrlsOf(SubSeq(links, 1, Len(probes))))
        /\ lpc = "done" =>
              /\ Len(probes) = ProbedCount
              /\ lresult.totalLinks = Len(links)
              /\ lresult.checkedLinks = ProbedCount
              /\ Len(lresult.brokenLinks) <= lresult.checkedLinks
              /\ IsSubsequence(UrlsOf(lresult.brokenLinks), UrlsOf(SubSeq(links, 1, ProbedCount)))

\* An audit of the geo backend ended on a page with one link more than the
\* limit, the last one external: every probe was answered 404, as many links
\* as the limit are listed and the external one is not among them.
C22_Witness ==
    /\ lpc = "done"
    /\ lfetch = "ok"
    /\ lvariant = "geo"
    /\ Len(links) = ProbeLimitGeo + 1
    /\ ~links[Len(links)].isInternal
    /\ \A i \in 1..Len(probes) : probes[i].status = 404
    /\ lresult.checkedLinks = ProbeLimitGeo
    /\ Len(lresult.brokenLinks) = ProbeLimitGeo
    /\ \A k \in 1..Len(lresult.brokenLinks) : lresult.brokenLinks[k].isInternal

-----------------------------------------------------------------------------
\* Technical analysis: claims about the auxiliary requests

IssueNoRobots == "No robots.txt file found"
RecommendRobots == "Create a robots.txt file to guide search engine crawlers"
IssueNoSitemap == "No XML sitemap found"
RecommendSitemap == "Create an XML sitemap to help search engines discover your pages"

\* The report is the scored one: no error, the six sub-scores, the overall
\* score their rounded mean, and the markup sections scored as for any site.
FullyScored(report) ==
    /\ report.error = "none"
    /\ DOMAIN report.scores = SubScoreNames
    /\ report.overallScore =
          RoundDiv(report.scores.crawlability + report.scores.mobileFriendly
                   + report.scores.security + report.scores.htmlStructure
                   + report.scores.metaData + report.scores.siteSpeed, 6)
    /\ report.scores.mobileFriendly = Min(100, MobileSection(world).score)
    /\ report.scores.security = Min(100, Max(0, SecuritySection(world).score))
    /\ report.scores.htmlStructure = Min(100, StructureSection(world).score)
    /\ report.scores.metaData = Min(100, MetaDataSection(world).score)

\* C23: a failed or timed-out robots.txt or sitemap.xml request never turns
\* the technical report into the all-zero fallback: the report of a readable
\* page is fully scored, the failed resource earns no crawlability points and
\* contributes one issue and one recommendation.
C23_AuxiliaryFailureIsolated ==
    tpc = "done" /\ world.fetch = "text" =>
        /\ world.robots = "throws" =>
              /\ FullyScored(tresult)
              /\ crawlScore = CrawlBase + SitemapPoints(world.sitemap)
                              + MetaRobotsPoints(world)
              /\ Occurrences(tresult.issues, IssueNoRobots) = 1
              /\ Occurrences(tresult.recommendations, RecommendRobots) = 1
        /\ world.sitemap = "throws" =>
              /\ FullyScored(tresult)
              /\ crawlScore = CrawlBase + RobotsPoints(world.robots)
                              + MetaRobotsPoints(world)
              /\ Occurrences(tresult.issues, IssueNoSitemap) = 1
              /\ Occurrences(tresult.recommendations, RecommendSitemap) = 1
        /\ world.robots = "throws" /\ world.sitemap = "throws" =>
              tresult.scores.crawlability = CrawlBase + MetaRobotsPoints(world)

\* Both auxiliary requests of an otherwise perfect site failed: the report is
\* scored, crawlability is 60 and the other sub-scores are as high as before.
C23_Witness ==
    /\ tpc = "done"
    /\ world = [BestWorld EXCEPT !.robots = "throws", !.sitemap = "throws"]
    /\ tresult.error = "none"
    /\ tresult.scores.crawlability = 60
    /\ tresult.scores.siteSpeed = 100
    /\ tresult.scores.metaData = 95
    /\ tresult.overallScore = 88
    /\ tresult.issues = <<IssueNoRobots, IssueNoSitemap>>

-----------------------------------------------------------------------------
\* Technical analysis: claims about the order of the lists

\* The entries of a list that belong to the given set, the order kept.
RECURSIVE Keep(_, _)
Keep(xs, wanted) ==
    IF xs = <<>> THEN <<>>
    ELSE IF Head(xs) \in wanted THEN <<Head(xs)>> \o Keep(Tail(xs), wanted)
    ELSE Keep(Tail(xs), wanted)

\* The recommendations in the order of the checks that push them: robots.txt,
\* sitemap, viewport, HTTPS, language, canonical, structured data, and the
\* four sub-score thresholds.
RecommendationOrder ==
    <<RecommendRobots,
      RecommendSitemap,
      "Add viewport meta tag for mobile responsiveness",
      "Migrate to HTTPS for security and SEO benefits",
      "Add language declaration to HTML tag",
      "Add canonical URL to prevent duplicate content issues",
      "Add structured data (JSON-LD) for rich snippets",
      "Improve crawlability by adding robots.txt and XML sitemap",
      "Enhance mobile-friendliness with responsive design",
      "Strengthen security with HTTPS and security headers",
      "Fix HTML structure issues and add missing meta tags">>

\* The positions of RecommendationOrder whose check fires on the analysed site,
\* given the sub-scores of the report.
FiredChecks(w, scores) ==
    {n \in 1..11 :
        CASE n = 1 -> AuxThrows(w.robots)
          [] n = 2 -> AuxThrows(w.sitemap)
          [] n = 3 -> ~HtmlIncludes(w, "name=\"viewport\"")
          [] n = 4 -> ~StartsWith(w.url, SchemeHttps)
          [] n = 5 -> ~(HtmlIncludes(w, "lang=") \/ HtmlIncludes(w, "<html lang"))
          [] n = 6 -> ~HtmlIncludes(w, "rel=\"canonical\"")
          [] n = 7 -> ~HtmlIncludes(w, "application/ld+json")
          [] n = 8 -> scores.crawlability < 70
          [] n = 9 -> scores.mobileFriendly < 80
          [] n = 10 -> scores.security < 80
          [] n = 11 -> scores.htmlStructure < 80}

\* The recommendations generated for the site, in check order.
GeneratedRecommendations(w, scores) ==
    Keep(RecommendationOrder, {RecommendationOrder[n] : n \in FiredChecks(w, scores)})

\* The issues with a fixed text, in the order of the checks that push them.
IssueOrder ==
    <<IssueNoRobots,
      IssueNoSitemap,
      "Missing viewport meta tag",
      "Flash content detected (not mobile-friendly)",
      "Website not using HTTPS",
      "Mixed content detected (HTTP resources on HTTPS page)",
      "Missing or empty title tag",
      "Missing H1 heading",
      "Missing meta description">>

\* What the technical report of a site is, whatever run produced it.
ReportOfSite(w) ==
    LET robots == [crawl |-> CrawlBase + RobotsPoints(w.robots),
                   issues |-> When(AuxThrows(w.robots), IssueNoRobots),
                   recs |-> When(AuxThrows(w.robots), RecommendRobots)]
        scored == ScoreMarkup(w, robots.crawl + SitemapPoints(w.sitemap),
                              robots.issues \o When(AuxThrows(w.sitemap), IssueNoSitemap),
                              robots.recs \o When(AuxThrows(w.sitemap), RecommendSitemap))
    IN  TechnicalReport(scored,
                        IF w.speed.key /\ w.speed.ok THEN PageSpeedScore(w.speed.permille)
                        ELSE DefaultSpeedScore)

\* C24: the recommendations of the technical report are at most 8 and are the
\* prefix of the recommendations generated in the fixed check order; the
\* issues keep the order of their checks; and the two lists are the same for
\* the same site and the same answers.
C24_RecommendationsPrefix ==
    tpc = "done" /\ tresult.error = "none" =>
        LET generated == GeneratedRecommendations(world, tresult.scores)
        IN  /\ Len(tresult.recommendations) <= MaxRecommendations
            /\ tresult.recommendations
                  = SubSeq(generated, 1, Min(Len(generated), MaxRecommendations))
            /\ Keep(tresult.issues, Range(IssueOrder))
                  = Keep(IssueOrder, Range(tresult.issues))
            /\ tresult.issues = ReportOfSite(world).issues
            /\ tresult.recommendations = ReportOfSite(world).recommendations

\* The site that gives no point was analysed: eleven recommendations were
\* generated and the report lists the first eight, the last of them the one
\* of the crawlability threshold.
C24_Witness ==
    /\ tpc = "done"
    /\ world = WorstWorld
    /\ Len(GeneratedRecommendations(world, tresult.scores)) = 11
    /\ Len(tresult.recommendations) = 8
    /\ tresult.recommendations[8] = RecommendationOrder[8]

-----------------------------------------------------------------------------
\* Technical analysis: claims about the analysis flags

\* The robots.txt request succeeded: it was answered with status 200.
RobotsFetched(w) == w.robots \in {"200 hit", "200 miss", "200 object"}

\* The sitemap request succeeded with a valid urlset.
SitemapValid(w) == w.sitemap = "200 hit"

\* C30: in a successful technical report, analysis.hasRobotsTxt is true if and
\* only if the robots.txt request succeeded, and analysis.hasXMLSitemap is
\* true if and only if the sitemap request succeeded with a valid urlset,
\* whatever the sitemap directive and the meta-robots signals.
C30_FlagsMatchFetches ==
    tpc = "done" /\ tresult.error = "none" =>
        /\ tresult.analysis.hasRobotsTxt <=> RobotsFetched(world)
        /\ tresult.analysis.hasXMLSitemap <=> SitemapValid(world)

-----------------------------------------------------------------------------
\* Claims about customer registration

\* C26: after any sequence of registration webhook calls the customer count
\* never exceeds the configured cap, so that the reported spotsLeft is never
\* negative; a registration that arrives when the cap is reached is rejected
\* and leaves the customer store and the count unchanged.
C26_CountNeverExceedsCap ==
    [][ /\ rcount' <= MaxCustomers(rvariant')
        /\ Availability'.spotsLeft >= 0
        /\ rcount >= MaxCustomers(rvariant) /\ rlast'.op = "register"
              => /\ rlast'.status = 400
                 /\ rcustomers' = rcustomers
                 /\ rcount' = rcount
      ]_vars

\* C27: after any sequence of registration webhook calls, successful,
\* rejected, failing or repeated for a registered email, customerCount equals
\* the number of customer records held in the customer store.
C27_CountIsStoreSize ==
    rcount = Cardinality(DOMAIN rcustomers)

-----------------------------------------------------------------------------
\* Claims about session tokens

\* The token most recently issued to the record stored under the key, if any.
LatestToken(issued, key) ==
    IF issued[key] = <<>> THEN NoToken ELSE issued[key][Len(issued[key])]

\* C28: after any sequence of verify-access and registration calls, token
\* validation accepts a token if and only if it is the token most recently
\* issued to a customer record still in the store: a successful verify-access
\* invalidates the customer's earlier token, a failed one leaves the existing
\* tokens as they were, and a registration of an email that is registered
\* invalidates its current token.
C28_TokenValidIffLatest ==
    [][ /\ \A token \in 1..MaxTokens :
              ValidateToken(rcustomers', token)
                  <=> \E key \in DOMAIN rcustomers' : LatestToken(rissued', key) = token
        /\ rlast'.op = "verify" /\ rlast'.status = 200 =>
              /\ ValidateToken(rcustomers', rcustomers'[rlast'.key].sessionToken)
              /\ rcustomers[rlast'.key].sessionToken # NoToken =>
                    ~ValidateToken(rcustomers', rcustomers[rlast'.key].sessionToken)
        /\ rlast'.op = "verify" /\ rlast'.status # 200 =>
              \A token \in 1..MaxTokens :
                  ValidateToken(rcustomers', token) <=> ValidateToken(rcustomers, token)
        /\ ( /\ rlast'.op = "register" /\ rlast'.status = 200
             /\ rlast'.key \in DOMAIN rcustomers
             /\ rcustomers[rlast'.key].sessionToken # NoToken )
           => ~ValidateToken(rcustomers', rcustomers[rlast'.key].sessionToken)
      ]_vars

\* The test customer verified twice and holds the second token; the other
\* customer registered, so that one more registration was answered; the first
\* token is no longer accepted and the last call was a validation that passed.
C28_Witness ==
    /\ rvariant = "geo"
    /\ rissued[EmailTest] = <<1, 2>>
    /\ rcustomers[EmailTest].sessionToken = 2
    /\ ~ValidateToken(rcustomers, 1)
    /\ EmailNew \in DOMAIN rcustomers
    /\ rlast.op = "validate"
    /\ rlast.status = 200

-----------------------------------------------------------------------------
\* Claims about the stored analyses of one customer

\* The stored analyses of the customer.
StoredFor(id) == {e \in analysisResults : e.customerId = id}

\* C29: under any interleaving of the authenticated analysis requests of one
\* customer, every completed analysis is stored under its own key: the number
\* of stored results of the customer equals the customer's analysisCount, and
\* the result of every completed request is still in the store, also when two
\* requests complete at the same clock value.
C29_EveryAnalysisStored ==
    cvariant = "enhanced" =>
        /\ Cardinality(StoredFor(KnownCustomer)) = analysisCount
        /\ \A r \in StoringRequests :
              \E e \in StoredFor(KnownCustomer) :
                  e.url = cinput[r].url /\ e.results = cresponse[r].data

-----------------------------------------------------------------------------
\* Claims about the order of the analyzers

\* The original statement of C25: given fixed responses of the network and of
\* the external services, running the analyzers of one request in any order
\* yields the report of the sequential order of the code.
C25_AnyOrderSameReport ==
    opc = "done" => oanswer = SequentialAnswer(ovariant, oinput)

\* C25 (amended): given fixed responses, running the analyzers of one request
\* in any order in which the recommendations analyzer of the enhanced backend
\* starts after the keyword extractor has returned yields the report of the
\* sequential order of the code.
C25_OrderSameReportAfterKeywords ==
    opc = "done" /\ ~oearly => oanswer = SequentialAnswer(ovariant, oinput)

\* An analysis of the geo backend ran its five analyzers with the
\* recommendations first and the page-speed call last, and reported as the
\* sequential order does, with a page-speed score, links and keywords.
C25_Witness ==
    /\ opc = "done"
    /\ ovariant = "geo"
    /\ odone = <<"ai", "keywords", "links", "technical", "speed">>
    /\ oinput.up /\ oinput.site = RichPage /\ oinput.completion.lines = 3
    /\ oanswer.status = 200
    /\ "pageSpeed" \in DOMAIN oanswer.data.scores
    /\ "totalLinks" \in DOMAIN oanswer.data.technical
    /\ Len(oanswer.data.extractedKeywords) > 0
    /\ Len(oanswer.data.recommendations) = 3

====
